---- MODULE Spec2Model ----
(***************************************************************************)
(* File-change event filtering pipeline of vibede: the stateless stage     *)
(* filters, the stateful debounce filter, their composition in             *)
(* applyAllFilters / filterEvents, and the React hooks (useFileFilters,    *)
(* useFileWatcher) that own the debounce map and feed events into it.      *)
(*                                                                         *)
(* Strings are sequences of one-character strings, so that concatenation,  *)
(* splitting and prefix tests are computed as the JavaScript code computes *)
(* them.  Time is the value of Date.now(), in model ticks.                 *)
(***************************************************************************)
EXTENDS Integers, Sequences, FiniteSets, TLC

VARIABLES
    now,            \* Date.now()
    filterConfig,   \* session -> FilterConfig          (useFileFilters state)
    recentChanges,  \* map slot -> Map<string,RecentChange>
    fileEvents,     \* session -> FileChangeEvent[]     (useFileWatcher state, newest first)
    arrivalNo,      \* session -> arrival numbers of fileEvents (history, parallel list)
    filteredEvents, \* session -> result of the last render's filterEvents
    passedAt,       \* event -> time of its last unsuppressed debounce call, or None (history)
    seenKeys,       \* keys of the events that survived stages 1-4 in some call (history)
    call,           \* the last operation: its arguments, result and pre-state (history)
    storage,        \* localStorage item fileWatcher.filterConfig
    hook,           \* session -> lifecycle of its useFileFilters instance
    timers,         \* the intervals scheduled with setInterval and not cleared
    renderedConfig  \* session -> the filterConfig its last render filtered fileEvents with

vars == <<now, filterConfig, recentChanges, fileEvents, arrivalNo, filteredEvents,
          passedAt, seenKeys, call, storage, hook, timers, renderedConfig>>

-----------------------------------------------------------------------------
(* Bounds of the model *)

MaxTime == 3          \* the clock of the debounce runs stops here
MaxPipelineTime == 1  \* the clock of the pipeline runs stops here
MaxBatch == 2         \* longest array handed to filterEvents
MaxBurst == 2         \* the count of suppressed calls saturates here
MaxEvents == 3        \* longest fileEvents list of a watch session

None == 0 - 1

-----------------------------------------------------------------------------
(* String helpers: JavaScript string operations on character sequences *)

RECURSIVE LastIndexOf(_, _, _)
\* s.lastIndexOf(c), scanning down from position i; 0 when absent (1-based)
LastIndexOf(s, c, i) ==
    IF i = 0 THEN 0
    ELSE IF s[i] = c THEN i
    ELSE LastIndexOf(s, c, i - 1)

\* s.slice(i) with a 1-based start
SliceFrom(s, i) == SubSeq(s, i, Len(s))

StartsWith(s, p) == Len(p) <= Len(s) /\ SubSeq(s, 1, Len(p)) = p

EndsWith(s, p) == Len(p) <= Len(s) /\ SubSeq(s, Len(s) - Len(p) + 1, Len(s)) = p

\* s.replace(/\\/g, '/')
ReplaceBackslashes(s) == [i \in 1..Len(s) |-> IF s[i] = "\\" THEN "/" ELSE s[i]]

UpperToLower ==
    [c \in {"A","B","C","D","E","F","G","H","I","J","K","L","M",
            "N","O","P","Q","R","S","T","U","V","W","X","Y","Z"} |->
        CASE c = "A" -> "a" [] c = "B" -> "b" [] c = "C" -> "c" [] c = "D" -> "d"
          [] c = "E" -> "e" [] c = "F" -> "f" [] c = "G" -> "g" [] c = "H" -> "h"
          [] c = "I" -> "i" [] c = "J" -> "j" [] c = "K" -> "k" [] c = "L" -> "l"
          [] c = "M" -> "m" [] c = "N" -> "n" [] c = "O" -> "o" [] c = "P" -> "p"
          [] c = "Q" -> "q" [] c = "R" -> "r" [] c = "S" -> "s" [] c = "T" -> "t"
          [] c = "U" -> "u" [] c = "V" -> "v" [] c = "W" -> "w" [] c = "X" -> "x"
          [] c = "Y" -> "y" [] c = "Z" -> "z"]

\* s.toLowerCase()
ToLowerCase(s) ==
    [i \in 1..Len(s) |-> IF s[i] \in DOMAIN UpperToLower THEN UpperToLower[s[i]] ELSE s[i]]

\* filePath.split('/').pop() || ''  : the text after the last "/"
BaseName(filePath) == SliceFrom(filePath, LastIndexOf(filePath, "/", Len(filePath)) + 1)

\* array.includes(x)
Includes(arr, x) == \E i \in 1..Len(arr) : arr[i] = x

-----------------------------------------------------------------------------
(* patternFilter.ts *)

\* characters the regular expression "." does not match
LineTerminators == {"\n", "\r"}

RECURSIVE RegexTestFrom(_, _, _, _)
\* globToRegex(pattern).test(name): "*" became ".*", "?" became ".", every other
\* character stands for itself (escaped where the regex syntax needs it), anchored ^...$
RegexTestFrom(pattern, i, name, j) ==
    IF i > Len(pattern) THEN j > Len(name)
    ELSE IF pattern[i] = "*" THEN
        \E k \in j..(Len(name) + 1) :
            /\ \A m \in j..(k - 1) : name[m] \notin LineTerminators
            /\ RegexTestFrom(pattern, i + 1, name, k)
    ELSE IF pattern[i] = "?" THEN
        /\ j <= Len(name)
        /\ name[j] \notin LineTerminators
        /\ RegexTestFrom(pattern, i + 1, name, j + 1)
    ELSE
        /\ j <= Len(name)
        /\ name[j] = pattern[i]
        /\ RegexTestFrom(pattern, i + 1, name, j + 1)

globToRegexTest(pattern, name) == RegexTestFrom(pattern, 1, name, 1)

matchesIgnoredPattern(filePath, config) ==
    IF ~config.enabled \/ Len(config.ignoredPatterns) = 0 THEN FALSE
    ELSE \E i \in 1..Len(config.ignoredPatterns) :
            globToRegexTest(config.ignoredPatterns[i], BaseName(filePath))

-----------------------------------------------------------------------------
(* directoryFilter.ts *)

normalizePath(path) ==
    LET normalized == ReplaceBackslashes(path)
    IN  IF EndsWith(normalized, <<"/">>)
        THEN SubSeq(normalized, 1, Len(normalized) - 1)
        ELSE normalized

\* mutant: the prefix test without the separator, so that "/foo/bar" would also
\* cover "/foo/barbell"
isInIgnoredDirectoryPartialName(filePath, config) ==
    IF ~config.enabled \/ Len(config.ignoredDirectories) = 0 THEN FALSE
    ELSE LET normalizedPath == normalizePath(filePath)
         IN  \E i \in 1..Len(config.ignoredDirectories) :
                StartsWith(normalizedPath, normalizePath(config.ignoredDirectories[i]))

isInIgnoredDirectory(filePath, config) ==
    IF ~config.enabled \/ Len(config.ignoredDirectories) = 0 THEN FALSE
    ELSE LET normalizedPath == normalizePath(filePath)
         IN  \E i \in 1..Len(config.ignoredDirectories) :
                LET normalizedDir == normalizePath(config.ignoredDirectories[i])
                IN  \/ normalizedPath = normalizedDir
                    \/ StartsWith(normalizedPath, normalizedDir \o <<"/">>)

-----------------------------------------------------------------------------
(* eventTypeFilter.ts *)

created == <<"c","r","e","a","t","e","d">>
modified == <<"m","o","d","i","f","i","e","d">>
removed == <<"r","e","m","o","v","e","d">>
renamed == <<"r","e","n","a","m","e","d">>
accessed == <<"a","c","c","e","s","s","e","d">>

\* the own properties of the typeMap object literal
typeMap ==
    [k \in { <<"c","r","e","a","t","e">>, <<"a","d","d">>, <<"a","d","d","e","d">>,
             <<"n","e","w">>,
             <<"m","o","d","i","f","y">>, <<"c","h","a","n","g","e">>,
             <<"c","h","a","n","g","e","d">>, <<"u","p","d","a","t","e">>,
             <<"u","p","d","a","t","e","d">>,
             <<"d","e","l","e","t","e">>, <<"r","e","m","o","v","e">>,
             <<"d","e","l","e","t","e","d">>, <<"u","n","l","i","n","k">>,
             <<"r","e","n","a","m","e">>, <<"m","o","v","e","d">>, <<"m","o","v","e">>,
             <<"a","c","c","e","s","s">>, accessed } |->
        CASE k \in { <<"c","r","e","a","t","e">>, <<"a","d","d">>,
                     <<"a","d","d","e","d">>, <<"n","e","w">> } -> created
          [] k \in { <<"m","o","d","i","f","y">>, <<"c","h","a","n","g","e">>,
                     <<"c","h","a","n","g","e","d">>, <<"u","p","d","a","t","e">>,
                     <<"u","p","d","a","t","e","d">> } -> modified
          [] k \in { <<"d","e","l","e","t","e">>, <<"r","e","m","o","v","e">>,
                     <<"d","e","l","e","t","e","d">>, <<"u","n","l","i","n","k">> } -> removed
          [] k \in { <<"r","e","n","a","m","e">>, <<"m","o","v","e","d">>,
                     <<"m","o","v","e">> } -> renamed
          [] OTHER -> accessed]

\* the lower-case property names typeMap inherits from Object.prototype; the
\* lookup typeMap[name] yields a truthy value that is not a string for them
InheritedKeys ==
    { <<"c","o","n","s","t","r","u","c","t","o","r">>,
      <<"_","_","p","r","o","t","o","_","_">> }

\* the non-string value of an inherited property (a function or an object):
\* no character sequence equals it
InheritedValue(k) == <<"[inherited]">> \o k

normalizeEventType(eventType) ==
    LET lowerType == ToLowerCase(eventType)
    IN  IF lowerType \in DOMAIN typeMap THEN typeMap[lowerType]
        ELSE IF lowerType \in InheritedKeys THEN InheritedValue(lowerType)
        ELSE lowerType

\* mutant: a disabled stage denies, as the early return of the pattern and
\* directory filters would if copied here
isAllowedEventTypeDenyDisabled(eventType, config) ==
    IF ~config.enabled THEN FALSE
    ELSE IF Len(config.allowedTypes) = 0 THEN TRUE
    ELSE Includes(config.allowedTypes, normalizeEventType(eventType))

isAllowedEventType(eventType, config) ==
    IF ~config.enabled THEN TRUE
    ELSE IF Len(config.allowedTypes) = 0 THEN TRUE
    ELSE Includes(config.allowedTypes, normalizeEventType(eventType))

-----------------------------------------------------------------------------
(* extensionFilter.ts *)

\* mutant: a name that starts with its only dot has that text as extension
getFileExtensionOfHidden(filePath) ==
    LET fileName == BaseName(filePath)
        lastDotIndex == LastIndexOf(fileName, ".", Len(fileName))
    IN  IF lastDotIndex < 1 THEN <<>>
        ELSE ToLowerCase(SliceFrom(fileName, lastDotIndex))

getFileExtension(filePath) ==
    LET fileName == BaseName(filePath)
        lastDotIndex == LastIndexOf(fileName, ".", Len(fileName))   \* 1-based, 0 = none
    IN  IF lastDotIndex <= 1 THEN <<>>
        ELSE ToLowerCase(SliceFrom(fileName, lastDotIndex))

matchesExtensionFilter(filePath, config) ==
    IF ~config.enabled THEN TRUE
    ELSE IF Len(config.watchedExtensions) = 0 THEN TRUE
    ELSE LET extension == getFileExtension(filePath)
         IN  IF extension = <<>> THEN config.mode = "exclude"
             ELSE LET extensionMatches == Includes(config.watchedExtensions, extension)
                  IN  IF config.mode = "include" THEN extensionMatches
                      ELSE ~extensionMatches

-----------------------------------------------------------------------------
(* debounceFilter.ts *)

createDebounceKey(event) == event.path \o <<":">> \o event.kind

\* Map.prototype.set
MapSet(map, key, value) ==
    [k \in (DOMAIN map) \cup {key} |-> IF k = key THEN value ELSE map[k]]

\* Map.prototype.delete of a set of keys
MapDeleteAll(map, keys) == [k \in (DOMAIN map) \ keys |-> map[k]]

EmptyMap == [k \in {} |-> 0]

\* mutant: <= in place of < (an entry exactly timeWindowMs old still suppresses)
SeenRecentlyInclusive(t, lastChange, config) ==
    (t - lastChange.timestamp) <= config.timeWindowMs

\* the test of line 34: the event was seen less than timeWindowMs ago
SeenRecently(t, lastChange, config) == (t - lastChange.timestamp) < config.timeWindowMs

\* mutant: a suppressed event re-stamps the entry (a sliding window)
shouldDebounceEventSliding(event, map, config, t) ==
    IF ~config.enabled THEN [ret |-> FALSE, map |-> map]
    ELSE LET key == createDebounceKey(event)
             stamped == MapSet(map, key, [timestamp |-> t, event |-> event])
         IN  IF key \in DOMAIN map /\ SeenRecently(t, map[key], config)
             THEN [ret |-> TRUE, map |-> stamped]
             ELSE [ret |-> FALSE, map |-> stamped]

\* mutant: the enabled flag is not looked at
shouldDebounceEventAlwaysOn(event, map, config, t) ==
    LET key == createDebounceKey(event)
    IN  IF key \in DOMAIN map /\ SeenRecently(t, map[key], config)
        THEN [ret |-> TRUE, map |-> map]
        ELSE [ret |-> FALSE,
              map |-> MapSet(map, key, [timestamp |-> t, event |-> event])]

\* shouldDebounceEvent called at Date.now() = t: the value returned and the map
\* as the call leaves it
shouldDebounceEvent(event, map, config, t) ==
    IF ~config.enabled THEN [ret |-> FALSE, map |-> map]
    ELSE LET key == createDebounceKey(event)
         IN  IF key \in DOMAIN map /\ SeenRecently(t, map[key], config)
             THEN [ret |-> TRUE, map |-> map]
             ELSE [ret |-> FALSE,
                   map |-> MapSet(map, key, [timestamp |-> t, event |-> event])]

\* mutant: an entry exactly maxAgeMs old is deleted too
cleanupRecentChangesInclusive(map, maxAgeMs, t) ==
    MapDeleteAll(map, {k \in DOMAIN map : t - map[k].timestamp >= maxAgeMs})

\* cleanupRecentChanges called at Date.now() = t
cleanupRecentChanges(map, maxAgeMs, t) ==
    MapDeleteAll(map, {k \in DOMAIN map : t - map[k].timestamp > maxAgeMs})

-----------------------------------------------------------------------------
(* combinedFilter.ts *)

StageOrder == <<"patterns", "directories", "eventTypes", "extensions", "debounce">>

\* the event survives the four stateless stages under config
PassesStatelessStages(e, config) ==
    /\ ~matchesIgnoredPattern(e.path, config.patterns)
    /\ ~isInIgnoredDirectory(e.path, config.directories)
    /\ isAllowedEventType(e.kind, config.eventTypes)
    /\ matchesExtensionFilter(e.path, config.extensions)

\* mutant: the debounce stage is consulted first, before the stateless stages
applyAllFiltersDebounceFirst(event, config, map, t) ==
    LET d == shouldDebounceEvent(event, map, config.debounce, t)
    IN  IF d.ret
        THEN [ret |-> FALSE, map |-> d.map, consulted |-> SubSeq(StageOrder, 5, 5)]
        ELSE [ret |-> PassesStatelessStages(event, config), map |-> d.map,
              consulted |-> StageOrder]

\* mutant: the extension stage is tested like the pattern and directory stages
\* (reject on a match), the negation forgotten
applyAllFiltersExtensionInverted(event, config, map, t) ==
    IF matchesIgnoredPattern(event.path, config.patterns)
    THEN [ret |-> FALSE, map |-> map, consulted |-> SubSeq(StageOrder, 1, 1)]
    ELSE IF isInIgnoredDirectory(event.path, config.directories)
    THEN [ret |-> FALSE, map |-> map, consulted |-> SubSeq(StageOrder, 1, 2)]
    ELSE IF ~isAllowedEventType(event.kind, config.eventTypes)
    THEN [ret |-> FALSE, map |-> map, consulted |-> SubSeq(StageOrder, 1, 3)]
    ELSE IF matchesExtensionFilter(event.path, config.extensions)
    THEN [ret |-> FALSE, map |-> map, consulted |-> SubSeq(StageOrder, 1, 4)]
    ELSE LET d == shouldDebounceEvent(event, map, config.debounce, t)
         IN  [ret |-> ~d.ret, map |-> d.map, consulted |-> StageOrder]

\* applyAllFilters called at time t: the value returned, the map as the call
\* leaves it and the stages it consulted, in order
applyAllFilters(event, config, map, t) ==
    IF matchesIgnoredPattern(event.path, config.patterns)
    THEN [ret |-> FALSE, map |-> map, consulted |-> SubSeq(StageOrder, 1, 1)]
    ELSE IF isInIgnoredDirectory(event.path, config.directories)
    THEN [ret |-> FALSE, map |-> map, consulted |-> SubSeq(StageOrder, 1, 2)]
    ELSE IF ~isAllowedEventType(event.kind, config.eventTypes)
    THEN [ret |-> FALSE, map |-> map, consulted |-> SubSeq(StageOrder, 1, 3)]
    ELSE IF ~matchesExtensionFilter(event.path, config.extensions)
    THEN [ret |-> FALSE, map |-> map, consulted |-> SubSeq(StageOrder, 1, 4)]
    ELSE LET d == shouldDebounceEvent(event, map, config.debounce, t)
         IN  [ret |-> ~d.ret, map |-> d.map, consulted |-> StageOrder]

\* mutant: the array is walked from its end
FilterVisitOrderReversed(n) == [i \in 1..n |-> n + 1 - i]

\* the order in which Array.prototype.filter visits the indices of an array of length n
FilterVisitOrder(n) == [i \in 1..n |-> i]

RECURSIVE FilterVisit(_, _, _, _, _, _, _)
\* the callback of events.filter run on the indices order[i..]: the indices kept,
\* the map after the calls and the log of the calls made
FilterVisit(events, order, i, config, map, t, acc) ==
    IF i > Len(order) THEN [kept |-> acc.kept, map |-> map, log |-> acc.log]
    ELSE LET r == applyAllFilters(events[order[i]], config, map, t)
         IN  FilterVisit(events, order, i + 1, config, r.map, t,
                 [kept |-> IF r.ret THEN acc.kept \cup {order[i]} ELSE acc.kept,
                  log |-> Append(acc.log, [index |-> order[i], ret |-> r.ret])])

RECURSIVE KeepIndices(_, _, _)
\* the elements of events whose index is in kept, in the order of events
KeepIndices(events, kept, i) ==
    IF i > Len(events) THEN <<>>
    ELSE IF i \in kept THEN <<events[i]>> \o KeepIndices(events, kept, i + 1)
    ELSE KeepIndices(events, kept, i + 1)

\* filterEvents called at time t: the array returned, the map afterwards, the call log
filterEvents(events, config, map, t) ==
    LET v == FilterVisit(events, FilterVisitOrder(Len(events)), 1, config, map, t,
                         [kept |-> {}, log |-> <<>>])
    IN  [output |-> KeepIndices(events, v.kept, 1), map |-> v.map, log |-> v.log]

-----------------------------------------------------------------------------
(* filterSettings.ts *)

FilterTypes == {"patterns", "directories", "eventTypes", "extensions", "debounce"}

\* mutant: the flag is written to every stage
toggleFilterAllStages(config, filterType, enabled) ==
    [k \in DOMAIN config |->
        IF k \in FilterTypes THEN [config[k] EXCEPT !.enabled = enabled] ELSE config[k]]

toggleFilter(config, filterType, enabled) ==
    CASE filterType = "patterns"    -> [config EXCEPT !.patterns.enabled = enabled]
      [] filterType = "directories" -> [config EXCEPT !.directories.enabled = enabled]
      [] filterType = "eventTypes"  -> [config EXCEPT !.eventTypes.enabled = enabled]
      [] filterType = "extensions"  -> [config EXCEPT !.extensions.enabled = enabled]
      [] filterType = "debounce"    -> [config EXCEPT !.debounce.enabled = enabled]
      [] OTHER -> config

-----------------------------------------------------------------------------
(* filterSettings.ts: defaults, presets, persistence *)

DEFAULT_IGNORED_PATTERNS ==
    << <<"*",".","t","m","p">>, <<"*",".","l","o","g">>, <<".","D","S","_","S","t","o","r","e">>, <<"T","h","u","m","b","s",".","d","b">>, <<"*","~">>, <<"*",".","s","w","p">>, <<"*",".","b","a","k">>, <<"*",".","c","a","c","h","e">> >>

DEFAULT_IGNORED_DIRECTORIES ==
    << <<"n","o","d","e","_","m","o","d","u","l","e","s">>, <<".","g","i","t">>, <<"d","i","s","t">>, <<"b","u","i","l","d">>, <<"o","u","t">>, <<".","n","e","x","t">>, <<"c","o","v","e","r","a","g","e">>, <<".","c","a","c","h","e">>, <<"t","m","p">>, <<"t","e","m","p">> >>

DEFAULT_ALLOWED_EVENT_TYPES == <<created, modified, removed>>

DEFAULT_WATCHED_EXTENSIONS ==
    << <<".","j","s">>, <<".","j","s","x">>, <<".","t","s">>, <<".","t","s","x">>, <<".","h","t","m","l">>, <<".","c","s","s">>, <<".","s","c","s","s">>, <<".","j","s","o","n">>, <<".","m","d">>, <<".","y","a","m","l">>, <<".","y","m","l">> >>

DEFAULT_DEBOUNCE_TIME_MS == 300

DEFAULT_FILTER_CONFIG ==
    [patterns |-> [enabled |-> FALSE, ignoredPatterns |-> DEFAULT_IGNORED_PATTERNS],
     directories |-> [enabled |-> TRUE, ignoredDirectories |-> DEFAULT_IGNORED_DIRECTORIES],
     eventTypes |-> [enabled |-> FALSE, allowedTypes |-> DEFAULT_ALLOWED_EVENT_TYPES],
     extensions |-> [enabled |-> FALSE, watchedExtensions |-> DEFAULT_WATCHED_EXTENSIONS,
                     mode |-> "include"],
     debounce |-> [enabled |-> FALSE, timeWindowMs |-> DEFAULT_DEBOUNCE_TIME_MS]]

REPO_TYPE_PRESETS ==
    [
     javascript |->
        [directories |-> [enabled |-> TRUE,
                         ignoredDirectories |-> << <<"n","o","d","e","_","m","o","d","u","l","e","s">>, <<"d","i","s","t">>, <<"b","u","i","l","d">>, <<"c","o","v","e","r","a","g","e">>, <<".","c","a","c","h","e">> >>],
         extensions |-> [enabled |-> TRUE,
                        watchedExtensions |-> << <<".","j","s">>, <<".","j","s","x">>, <<".","j","s","o","n">>, <<".","h","t","m","l">>, <<".","c","s","s">>, <<".","s","c","s","s">> >>,
                        mode |-> "include"]],
     typescript |->
        [directories |-> [enabled |-> TRUE,
                         ignoredDirectories |-> << <<"n","o","d","e","_","m","o","d","u","l","e","s">>, <<"d","i","s","t">>, <<"b","u","i","l","d">>, <<"c","o","v","e","r","a","g","e">>, <<".","c","a","c","h","e">> >>],
         extensions |-> [enabled |-> TRUE,
                        watchedExtensions |-> << <<".","t","s">>, <<".","t","s","x">>, <<".","j","s">>, <<".","j","s","x">>, <<".","j","s","o","n">>, <<".","h","t","m","l">>, <<".","c","s","s">>, <<".","s","c","s","s">> >>,
                        mode |-> "include"]],
     python |->
        [directories |-> [enabled |-> TRUE,
                         ignoredDirectories |-> << <<"_","_","p","y","c","a","c","h","e","_","_">>, <<".","v","e","n","v">>, <<"v","e","n","v">>, <<"d","i","s","t">>, <<"b","u","i","l","d">>, <<".","p","y","t","e","s","t","_","c","a","c","h","e">> >>],
         extensions |-> [enabled |-> TRUE,
                        watchedExtensions |-> << <<".","p","y">>, <<".","i","p","y","n","b">>, <<".","j","s","o","n">>, <<".","y","m","l">>, <<".","y","a","m","l">> >>,
                        mode |-> "include"]],
     java |->
        [directories |-> [enabled |-> TRUE,
                         ignoredDirectories |-> << <<"t","a","r","g","e","t">>, <<"b","u","i","l","d">>, <<".","g","r","a","d","l","e">>, <<"o","u","t">>, <<"b","i","n">> >>],
         extensions |-> [enabled |-> TRUE,
                        watchedExtensions |-> << <<".","j","a","v","a">>, <<".","k","t">>, <<".","x","m","l">>, <<".","p","r","o","p","e","r","t","i","e","s">>, <<".","g","r","a","d","l","e">> >>,
                        mode |-> "include"]],
     csharp |->
        [directories |-> [enabled |-> TRUE,
                         ignoredDirectories |-> << <<"b","i","n">>, <<"o","b","j">>, <<"p","a","c","k","a","g","e","s">>, <<".","v","s">> >>],
         extensions |-> [enabled |-> TRUE,
                        watchedExtensions |-> << <<".","c","s">>, <<".","c","s","p","r","o","j">>, <<".","s","l","n">>, <<".","x","a","m","l">>, <<".","c","o","n","f","i","g">>, <<".","j","s","o","n">> >>,
                        mode |-> "include"]],
     cpp |->
        [directories |-> [enabled |-> TRUE,
                         ignoredDirectories |-> << <<"b","u","i","l","d">>, <<"b","i","n">>, <<"l","i","b">>, <<"o","b","j">>, <<".","v","s">> >>],
         extensions |-> [enabled |-> TRUE,
                        watchedExtensions |-> << <<".","c">>, <<".","c","p","p">>, <<".","h">>, <<".","h","p","p">>, <<".","c","c">>, <<".","c","x","x">>, <<".","c","m","a","k","e">>, <<".","t","x","t">> >>,
                        mode |-> "include"]],
     go |->
        [directories |-> [enabled |-> TRUE,
                         ignoredDirectories |-> << <<"v","e","n","d","o","r">>, <<"b","i","n">>, <<"p","k","g">> >>],
         extensions |-> [enabled |-> TRUE,
                        watchedExtensions |-> << <<".","g","o">>, <<".","m","o","d">>, <<".","s","u","m">>, <<".","p","r","o","t","o">> >>,
                        mode |-> "include"]],
     rust |->
        [directories |-> [enabled |-> TRUE,
                         ignoredDirectories |-> << <<"t","a","r","g","e","t">>, <<"d","i","s","t">>, <<"b","u","i","l","d">> >>],
         extensions |-> [enabled |-> TRUE,
                        watchedExtensions |-> << <<".","r","s">>, <<".","t","o","m","l">>, <<".","l","o","c","k">> >>,
                        mode |-> "include"]],
     php |->
        [directories |-> [enabled |-> TRUE,
                         ignoredDirectories |-> << <<"v","e","n","d","o","r">>, <<"n","o","d","e","_","m","o","d","u","l","e","s">>, <<"p","u","b","l","i","c","/","b","u","i","l","d">>, <<"s","t","o","r","a","g","e">> >>],
         extensions |-> [enabled |-> TRUE,
                        watchedExtensions |-> << <<".","p","h","p">>, <<".","b","l","a","d","e",".","p","h","p">>, <<".","t","w","i","g">>, <<".","j","s","o","n">>, <<".","y","m","l">> >>,
                        mode |-> "include"]],
     ruby |->
        [directories |-> [enabled |-> TRUE,
                         ignoredDirectories |-> << <<"v","e","n","d","o","r">>, <<"t","m","p">>, <<"l","o","g">>, <<"p","u","b","l","i","c","/","a","s","s","e","t","s">> >>],
         extensions |-> [enabled |-> TRUE,
                        watchedExtensions |-> << <<".","r","b">>, <<".","e","r","b">>, <<".","r","a","k","e">>, <<".","y","m","l">>, <<".","j","s","o","n">> >>,
                        mode |-> "include"]],
     generic |-> DEFAULT_FILTER_CONFIG
    ]

RepoTypes == DOMAIN REPO_TYPE_PRESETS

\* the value undefined of an optional property
Undefined == "undefined"

\* { ...a, ...b }
ObjectSpread(a, b) ==
    [k \in (DOMAIN a) \cup (DOMAIN b) |-> IF k \in DOMAIN b THEN b[k] ELSE a[k]]

\* obj[k] = v
SetProperty(obj, k, v) == [x \in (DOMAIN obj) \cup {k} |-> IF x = k THEN v ELSE obj[x]]

\* mutant: only the five stages are written
SerializedKeysStagesOnly(value) == (DOMAIN value) \cap FilterTypes

\* the own properties JSON.stringify writes: one holding undefined is left out
\* (of a FilterConfig only activePreset can hold it)
SerializedKeys(value) ==
    {k \in DOMAIN value : ~(k = "activePreset" /\ value[k] = Undefined)}

\* JSON.stringify(value): the text of a FilterConfig
JsonStringify(value) ==
    [kind |-> "json", value |-> [k \in SerializedKeys(value) |-> value[k]]]

\* JSON.parse(text) throws on text that is not JSON
JsonParseThrows(text) == text.kind # "json"

\* JSON.parse(text) of well-formed text
JsonParse(text) == text.value

\* what localStorage holds under FILTER_CONFIG_KEY: nothing, the empty string,
\* text that is not JSON, or the JSON text of a value
NoItem == [kind |-> "none"]
EmptyItem == [kind |-> "empty"]
MalformedItem == [kind |-> "malformed"]

\* the item after saveFilterConfig(config): setItem stores the text, or throws
\* (storage full or unavailable), is caught and logged, and the item stays
saveFilterConfig(config, item, setItemThrows) ==
    IF setItemThrows THEN item ELSE JsonStringify(config)

\* loadFilterConfig(): getItem may throw (caught); a null or empty item is
\* falsy; text that is not JSON makes JSON.parse throw (caught); any other text
\* is parsed and returned as it is
loadFilterConfig(item, getItemThrows) ==
    [threw |-> FALSE,
     ret |-> IF getItemThrows THEN DEFAULT_FILTER_CONFIG
             ELSE IF item.kind \in {"none", "empty"} THEN DEFAULT_FILTER_CONFIG
             ELSE IF JsonParseThrows(item) THEN DEFAULT_FILTER_CONFIG
             ELSE JsonParse(item)]

\* mutant: the preset laid over the defaults instead of over the given config
applyRepoTypePresetOverDefaults(config, repoType) ==
    [ret |-> SetProperty(ObjectSpread(DEFAULT_FILTER_CONFIG, REPO_TYPE_PRESETS[repoType]),
                         "activePreset", repoType),
     config |-> config]

\* the returned config, and the argument object as the call leaves it: every
\* assignment goes to newConfig, the deep copy
applyRepoTypePreset(config, repoType) ==
    LET preset == REPO_TYPE_PRESETS[repoType]
        copy == JsonParse(JsonStringify(config))
        Merge(c, stage) ==
            IF stage \in DOMAIN preset
            THEN SetProperty(c, stage, ObjectSpread(c[stage], preset[stage]))
            ELSE c
        newConfig ==
            Merge(Merge(Merge(Merge(Merge(copy, "patterns"), "directories"),
                              "eventTypes"), "extensions"), "debounce")
    IN  [ret |-> SetProperty(newConfig, "activePreset", repoType), config |-> config]

resetFilterConfig == DEFAULT_FILTER_CONFIG

-----------------------------------------------------------------------------
(* repoTypeDetector.ts *)

\* REPO_TYPE_SIGNATURES, in declaration order (the order of Object.entries)
REPO_TYPE_SIGNATURES ==
    <<
       [repoType |-> "javascript",
        files |-> << <<"p","a","c","k","a","g","e",".","j","s","o","n">>, <<"p","a","c","k","a","g","e","-","l","o","c","k",".","j","s","o","n">>, <<"y","a","r","n",".","l","o","c","k">>, <<"n","o","d","e","_","m","o","d","u","l","e","s">> >>,
        directories |-> << <<"n","o","d","e","_","m","o","d","u","l","e","s">> >>],
       [repoType |-> "typescript",
        files |-> << <<"t","s","c","o","n","f","i","g",".","j","s","o","n">>, <<"p","a","c","k","a","g","e",".","j","s","o","n">>, <<"n","o","d","e","_","m","o","d","u","l","e","s">> >>,
        directories |-> << <<"n","o","d","e","_","m","o","d","u","l","e","s">> >>],
       [repoType |-> "python",
        files |-> << <<"r","e","q","u","i","r","e","m","e","n","t","s",".","t","x","t">>, <<"s","e","t","u","p",".","p","y">>, <<"p","y","p","r","o","j","e","c","t",".","t","o","m","l">>, <<"P","i","p","f","i","l","e">> >>,
        directories |-> << <<"_","_","p","y","c","a","c","h","e","_","_">>, <<".","v","e","n","v">>, <<"v","e","n","v">> >>],
       [repoType |-> "java",
        files |-> << <<"p","o","m",".","x","m","l">>, <<"b","u","i","l","d",".","g","r","a","d","l","e">>, <<"g","r","a","d","l","e","w">>, <<".","c","l","a","s","s","p","a","t","h">> >>,
        directories |-> << <<"t","a","r","g","e","t">>, <<"b","u","i","l","d">>, <<".","g","r","a","d","l","e">> >>],
       [repoType |-> "csharp",
        files |-> << <<".","s","l","n">>, <<".","c","s","p","r","o","j">>, <<"p","a","c","k","a","g","e","s",".","c","o","n","f","i","g">> >>,
        directories |-> << <<"b","i","n">>, <<"o","b","j">>, <<"p","a","c","k","a","g","e","s">> >>],
       [repoType |-> "cpp",
        files |-> << <<"C","M","a","k","e","L","i","s","t","s",".","t","x","t">>, <<"M","a","k","e","f","i","l","e">>, <<".","v","c","x","p","r","o","j">> >>,
        directories |-> << <<"b","u","i","l","d">>, <<"b","i","n">>, <<"l","i","b">> >>],
       [repoType |-> "go",
        files |-> << <<"g","o",".","m","o","d">>, <<"g","o",".","s","u","m">>, <<"m","a","i","n",".","g","o">> >>,
        directories |-> << <<"v","e","n","d","o","r">>, <<"p","k","g">> >>],
       [repoType |-> "rust",
        files |-> << <<"C","a","r","g","o",".","t","o","m","l">>, <<"C","a","r","g","o",".","l","o","c","k">> >>,
        directories |-> << <<"t","a","r","g","e","t">>, <<"s","r","c">> >>],
       [repoType |-> "php",
        files |-> << <<"c","o","m","p","o","s","e","r",".","j","s","o","n">>, <<"c","o","m","p","o","s","e","r",".","l","o","c","k">>, <<"a","r","t","i","s","a","n">> >>,
        directories |-> << <<"v","e","n","d","o","r">>, <<"a","p","p">> >>],
       [repoType |-> "ruby",
        files |-> << <<"G","e","m","f","i","l","e">>, <<"R","a","k","e","f","i","l","e">>, <<"c","o","n","f","i","g",".","r","u">> >>,
        directories |-> << <<"v","e","n","d","o","r">>, <<"l","i","b">>, <<"a","p","p">> >>],
       [repoType |-> "generic",
        files |-> <<>>,
        directories |-> <<>>]
    >>

RepoTypeIndex == 1..Len(REPO_TYPE_SIGNATURES)

sTsconfigJson == <<"t","s","c","o","n","f","i","g",".","j","s","o","n">>

\* f.toLowerCase().split('/') and its last part, for every entry
NormalizedNames(entries) == [i \in 1..Len(entries) |-> BaseName(ToLowerCase(entries[i]))]

\* the score the two loops give the type at position i of the table
ScoreOf(i, normalizedFiles, normalizedDirs) ==
    LET signature == REPO_TYPE_SIGNATURES[i]
    IN  Cardinality({j \in 1..Len(signature.files) :
                        Includes(normalizedFiles, ToLowerCase(signature.files[j]))})
      + Cardinality({j \in 1..Len(signature.directories) :
                        Includes(normalizedDirs, ToLowerCase(signature.directories[j]))})

RECURSIVE BestMatchFrom(_, _, _, _)
\* the loop over Object.entries(scores): a type replaces the best match only
\* with a strictly higher score
BestMatchFrom(i, scores, bestMatch, highestScore) ==
    IF i > Len(REPO_TYPE_SIGNATURES) THEN bestMatch
    ELSE IF scores[i] > highestScore
         THEN BestMatchFrom(i + 1, scores, REPO_TYPE_SIGNATURES[i].repoType, scores[i])
         ELSE BestMatchFrom(i + 1, scores, bestMatch, highestScore)

ScoresOf(filesPresent, directoriesPresent) ==
    [i \in RepoTypeIndex |->
        ScoreOf(i, NormalizedNames(filesPresent), NormalizedNames(directoriesPresent))]

detectRepoType(filesPresent, directoriesPresent) ==
    LET normalizedFiles == NormalizedNames(filesPresent)
        scores == ScoresOf(filesPresent, directoriesPresent)
        bestMatch == BestMatchFrom(1, scores, "generic", 0)
    IN  IF scores[1] = scores[2] /\ scores[2] > 0 /\ Includes(normalizedFiles, sTsconfigJson)
        THEN "typescript"
        ELSE bestMatch

\* s.includes(sub) on strings
StringIncludes(s, sub) ==
    \E i \in 1..(Len(s) - Len(sub) + 1) : SubSeq(s, i, i + Len(sub) - 1) = sub

\* a settled promise
Fulfilled(value) == [state |-> "fulfilled", value |-> value]

\* the catch branch of the listing call: the checks on the directory name, in order
DirNameRules ==
    <<
       [repoType |-> "javascript", parts |-> { <<"n","o","d","e">>, <<"j","s">>, <<"j","a","v","a","s","c","r","i","p","t">> }],
       [repoType |-> "typescript", parts |-> { <<"t","s">>, <<"t","y","p","e","s","c","r","i","p","t">> }],
       [repoType |-> "python", parts |-> { <<"p","y">>, <<"p","y","t","h","o","n">> }],
       [repoType |-> "java", parts |-> { <<"j","a","v","a">> }],
       [repoType |-> "csharp", parts |-> { <<"c","s">>, <<"c","s","h","a","r","p">>, <<"d","o","t","n","e","t">> }],
       [repoType |-> "cpp", parts |-> { <<"c","p","p">>, <<"c","+","+">> }],
       [repoType |-> "go", parts |-> { <<"g","o">>, <<"g","o","l","a","n","g">> }],
       [repoType |-> "rust", parts |-> { <<"r","u","s","t">>, <<"r","s">> }],
       [repoType |-> "php", parts |-> { <<"p","h","p">> }],
       [repoType |-> "ruby", parts |-> { <<"r","u","b","y">>, <<"r","b">> }]
    >>

RECURSIVE DirNameFrom(_, _)
DirNameFrom(i, dirName) ==
    IF i > Len(DirNameRules) THEN "generic"
    ELSE IF \E part \in DirNameRules[i].parts : StringIncludes(dirName, part)
         THEN DirNameRules[i].repoType
         ELSE DirNameFrom(i + 1, dirName)

DetectByDirName(directoryPath) == DirNameFrom(1, ToLowerCase(BaseName(directoryPath)))

\* the base names of a listing that are not hidden, split by the heuristic
\* "a name with a dot is a file"
ListedNames(files, withDot) ==
    {BaseName(files[i]) :
        i \in {j \in 1..Len(files) :
                  LET fileName == BaseName(files[j])
                  IN  /\ ~StartsWith(fileName, <<".">>)
                      /\ Includes(fileName, ".") = withDot}}

\* the checks on the entries of a listing, in order
DetectByListing(files) ==
    LET fileNames == ListedNames(files, TRUE)
        directoryNames == ListedNames(files, FALSE)
    IN  IF <<"n","o","d","e","_","m","o","d","u","l","e","s">> \in directoryNames
        THEN IF <<"t","s","c","o","n","f","i","g",".","j","s","o","n">> \in fileNames THEN "typescript" ELSE "javascript"
        ELSE IF <<"_","_","p","y","c","a","c","h","e","_","_">> \in directoryNames \/ <<"v","e","n","v">> \in directoryNames THEN "python"
        ELSE IF <<"t","a","r","g","e","t">> \in directoryNames /\ <<"C","a","r","g","o",".","t","o","m","l">> \in fileNames THEN "rust"
        ELSE IF <<"p","a","c","k","a","g","e",".","j","s","o","n">> \in fileNames
        THEN IF <<"t","s","c","o","n","f","i","g",".","j","s","o","n">> \in fileNames THEN "typescript" ELSE "javascript"
        ELSE IF <<"r","e","q","u","i","r","e","m","e","n","t","s",".","t","x","t">> \in fileNames \/ <<"s","e","t","u","p",".","p","y">> \in fileNames THEN "python"
        ELSE IF <<"p","o","m",".","x","m","l">> \in fileNames \/ <<"b","u","i","l","d",".","g","r","a","d","l","e">> \in fileNames THEN "java"
        ELSE IF \E f \in fileNames : EndsWith(f, <<".","c","s","p","r","o","j">>) \/ EndsWith(f, <<".","s","l","n">>) THEN "csharp"
        ELSE IF <<"C","M","a","k","e","L","i","s","t","s",".","t","x","t">> \in fileNames \/ (\E f \in fileNames : EndsWith(f, <<".","v","c","x","p","r","o","j">>)) THEN "cpp"
        ELSE IF <<"g","o",".","m","o","d">> \in fileNames THEN "go"
        ELSE IF <<"c","o","m","p","o","s","e","r",".","j","s","o","n">> \in fileNames THEN "php"
        ELSE IF <<"G","e","m","f","i","l","e">> \in fileNames THEN "ruby"
        ELSE "generic"

\* detectRepoTypeAsync(directoryPath), given what the Tauri API does: the import
\* fails, the listing command rejects, or it resolves to a value
detectRepoTypeAsync(directoryPath, tauri) ==
    IF tauri.kind = "importFails" THEN Fulfilled("generic")
    ELSE IF tauri.kind = "invokeRejects" THEN Fulfilled(DetectByDirName(directoryPath))
    ELSE IF tauri.kind = "notAnArray" THEN Fulfilled("generic")
    ELSE Fulfilled(DetectByListing(tauri.files))

-----------------------------------------------------------------------------
(* The events and configurations the model draws from *)

pTmp == <<"/","w","/","a",".","t","m","p">>              \* "/w/a.tmp"
pDir == <<"/","f","o","o","/","b","a","r","/","x",".","t","s">>   \* "/foo/bar/x.ts"
pTs  == <<"/","w","/","a",".","t","s">>                  \* "/w/a.ts"
pJs  == <<"/","w","/","a",".","j","s">>                  \* "/w/a.js"
pColonL == <<"a",":","b">>                               \* "a:b"
pColonS == <<"a">>                                       \* "a"

kModify == <<"m","o","d","i","f","y">>
kAccess == <<"a","c","c","e","s","s">>
kColonS == <<"c">>                                       \* "c"
kColonL == <<"b",":","c">>                               \* "b:c"

watchId == <<"w","1">>

Event(p, k) == [path |-> p, kind |-> k, watch_id |-> watchId]

eTmp == Event(pTmp, kModify)      \* matches the ignored pattern *.tmp
eDir == Event(pDir, kModify)      \* lies under the ignored directory /foo/bar
eAcc == Event(pTs, kAccess)       \* kind outside the allow-list
eJs  == Event(pJs, kModify)       \* extension outside the include list
eOk  == Event(pTs, kModify)       \* passes the four stateless stages

PipelineEvents == {eTmp, eDir, eAcc, eJs, eOk}

\* the events of the batches handed to filterEvents
BatchEvents == {eJs, eOk}

\* two pairs of events: same path and other kind, and other path and other kind
\* with the same concatenation path + ":" + kind
DebounceEvents ==
    {eOk, eAcc, Event(pColonL, kColonS), Event(pColonS, kColonL)}

AllEvents == PipelineEvents \cup DebounceEvents

NoEvent == [path |-> <<>>, kind |-> <<>>, watch_id |-> <<>>]

\* the time windows a user can set with updateDebounceTime
Windows == {0, 1, 2}

\* a FilterConfig a session can hold: the stages in en enabled, window w
ModelConfig(en, w) ==
    [patterns |-> [enabled |-> "patterns" \in en,
                   ignoredPatterns |-> << <<"*",".","t","m","p">> >>],
     directories |-> [enabled |-> "directories" \in en,
                      ignoredDirectories |-> << <<"/","f","o","o","/","b","a","r">> >>],
     eventTypes |-> [enabled |-> "eventTypes" \in en,
                     allowedTypes |-> <<created, modified, removed>>],
     extensions |-> [enabled |-> "extensions" \in en,
                     watchedExtensions |-> << <<".","t","s">> >>,
                     mode |-> "include"],
     debounce |-> [enabled |-> "debounce" \in en, timeWindowMs |-> w]]

\* the configurations of the pipeline runs: every combination of enabled stages
PipelineWindows == {1}

PipelineConfigs == {ModelConfig(en, w) : en \in SUBSET FilterTypes, w \in PipelineWindows}

Sessions == {1, 2}

\* mutant: one module-level map shared by every session
MapRefShared(s) == 1

\* const [recentChanges] = useState(new Map()): the map a session's hook owns
MapRef(s) == s

NoCall ==
    [op |-> "none", s |-> 0, e |-> NoEvent, input |-> <<>>, ret |-> FALSE,
     output |-> <<>>, log |-> <<>>, consulted |-> <<>>, t |-> 0,
     anchor |-> None, burstBefore |-> 0, burst |-> 0, arrivals |-> <<>>,
     before |-> [s \in Sessions |-> EmptyMap],
     prevConfig |-> ModelConfig({"directories"}, 1), prevOutput |-> <<>>]

-----------------------------------------------------------------------------
(* Operations *)

\* Date.now() advances, up to max
Clock(max) ==
    /\ now < max
    /\ now' = now + 1

\* time passes, up to max
TickTo(max) ==
    /\ Clock(max)
    /\ call' = NoCall
    /\ UNCHANGED <<filterConfig, recentChanges, fileEvents, arrivalNo,
                   filteredEvents, passedAt, seenKeys, storage, hook, timers, renderedConfig>>

\* useFileFilters.shouldShowEvent(event) of session s
ShouldShowEvent(s, e) ==
    LET r == applyAllFilters(e, filterConfig[s], recentChanges[MapRef(s)], now)
    IN  /\ recentChanges' = [recentChanges EXCEPT ![MapRef(s)] = r.map]
        /\ seenKeys' = IF PassesStatelessStages(e, filterConfig[s])
                       THEN seenKeys \cup {createDebounceKey(e)} ELSE seenKeys
        /\ call' = [NoCall EXCEPT !.op = "apply", !.s = s, !.e = e, !.ret = r.ret,
                                  !.consulted = r.consulted, !.t = now,
                                  !.before = recentChanges]
        /\ UNCHANGED <<now, filterConfig, fileEvents, arrivalNo, filteredEvents, passedAt, storage, hook, timers, renderedConfig>>

\* useFileFilters.filterEvents(events) of session s
FilterEventsCall(s, events) ==
    LET r == filterEvents(events, filterConfig[s], recentChanges[MapRef(s)], now)
    IN  /\ recentChanges' = [recentChanges EXCEPT ![MapRef(s)] = r.map]
        /\ seenKeys' = seenKeys \cup
               {createDebounceKey(events[i]) :
                    i \in {j \in 1..Len(events) : PassesStatelessStages(events[j], filterConfig[s])}}
        /\ call' = [NoCall EXCEPT !.op = "filterEvents", !.s = s, !.input = events,
                                  !.output = r.output, !.log = r.log, !.t = now,
                                  !.before = recentChanges]
        /\ UNCHANGED <<now, filterConfig, fileEvents, arrivalNo, filteredEvents, passedAt, storage, hook, timers, renderedConfig>>

\* the arrays of 1..MaxBatch events over a set
Batches(E) == UNION {[1..n -> E] : n \in 1..MaxBatch}

\* a useFileFilters instance that is not mounted
IdleHook ==
    [mounted |-> FALSE, needsRender |-> FALSE, updates |-> 0,
     next |-> DEFAULT_FILTER_CONFIG,
     configRef |-> "default", debounceRef |-> "default",
     renderedConfigRef |-> "default", renderedDebounceRef |-> "default",
     intervalId |-> 0, detect |-> [pending |-> FALSE]]

\* no hook instance mounted, nothing stored, no interval scheduled
HooksIdle ==
    /\ storage = NoItem
    /\ hook = [s \in Sessions |-> IdleHook]
    /\ timers = {}
    /\ renderedConfig = [s \in Sessions |-> ModelConfig({"directories"}, 1)]

\* the state after the hooks are constructed, with a configuration out of configs
InitWith(configs) ==
    /\ now = 0
    /\ \E c \in configs : filterConfig = [s \in Sessions |-> c]
    /\ recentChanges = [s \in Sessions |-> EmptyMap]
    /\ fileEvents = [s \in Sessions |-> <<>>]
    /\ arrivalNo = [s \in Sessions |-> <<>>]
    /\ filteredEvents = [s \in Sessions |-> <<>>]
    /\ passedAt = [e \in AllEvents |-> None]
    /\ seenKeys = {}
    /\ HooksIdle
    /\ call = NoCall

-----------------------------------------------------------------------------
(* The pipeline under one configuration: single calls and batches *)

Init == InitWith(PipelineConfigs)

ShowOne == \E e \in PipelineEvents : ShouldShowEvent(1, e)

FilterBatch == \E b \in Batches(BatchEvents) : FilterEventsCall(1, b)

PipelineTick == TickTo(MaxPipelineTime)

Next == PipelineTick \/ ShowOne \/ FilterBatch

Spec == Init /\ [][Next]_vars

-----------------------------------------------------------------------------
(* Properties of the pipeline (checked under Spec) *)

\* the configuration and the map the last call of session call.s ran against
CallConfig == filterConfig[call.s]
CallMapBefore == call.before[MapRef(call.s)]
CallMapAfter == recentChanges[MapRef(call.s)]

AllDisabled(config) ==
    toggleFilter(toggleFilter(toggleFilter(toggleFilter(toggleFilter(
        config, "patterns", FALSE), "directories", FALSE), "eventTypes", FALSE),
        "extensions", FALSE), "debounce", FALSE)

AllEnabled(config) ==
    /\ config.patterns.enabled
    /\ config.directories.enabled
    /\ config.eventTypes.enabled
    /\ config.extensions.enabled
    /\ config.debounce.enabled

\* C2: an event rejected by the pattern, directory, event-type or extension stage
\* leaves the recentChanges map as it was (no entry added, removed or re-stamped);
\* a batch changes only entries of events that survive those stages; and the map
\* never holds a key other than those of events that survived stages 1-4.
C2_RejectedLeavesMap ==
    /\ (call.op = "apply" /\ ~PassesStatelessStages(call.e, CallConfig))
          => recentChanges = call.before
    /\ call.op = "filterEvents" =>
          \A k \in (DOMAIN CallMapAfter) \cup (DOMAIN CallMapBefore) :
              (k \notin DOMAIN CallMapBefore \/ k \notin DOMAIN CallMapAfter
                    \/ CallMapAfter[k] # CallMapBefore[k])
                 => \E i \in 1..Len(call.input) :
                        /\ createDebounceKey(call.input[i]) = k
                        /\ PassesStatelessStages(call.input[i], CallConfig)
    /\ \A s \in Sessions : DOMAIN recentChanges[MapRef(s)] \subseteq seenKeys

\* a rejection by a stateless stage while debounce is on and the map holds entries
C2_Witness ==
    /\ call.op = "apply"
    /\ ~PassesStatelessStages(call.e, CallConfig)
    /\ CallConfig.debounce.enabled
    /\ CallMapBefore # EmptyMap
    /\ Len(call.consulted) = 2

\* whether stage i of StageOrder rejects the event of the last call
StageRejects(i) ==
    CASE i = 1 -> matchesIgnoredPattern(call.e.path, CallConfig.patterns)
      [] i = 2 -> isInIgnoredDirectory(call.e.path, CallConfig.directories)
      [] i = 3 -> ~isAllowedEventType(call.e.kind, CallConfig.eventTypes)
      [] i = 4 -> ~matchesExtensionFilter(call.e.path, CallConfig.extensions)
      [] OTHER -> shouldDebounceEvent(call.e, CallMapBefore, CallConfig.debounce, call.t).ret

\* C3: applyAllFilters returns true exactly when no stage rejects the event, and it
\* consults the stages in the order pattern, directory, event type, extension,
\* debounce up to and including the first one that rejects, and none after it.
C3_FixedOrderShortCircuit ==
    call.op = "apply" =>
        LET rejecting == {i \in 1..5 : StageRejects(i)}
            last == IF rejecting = {} THEN 5
                    ELSE CHOOSE i \in rejecting : \A j \in rejecting : i <= j
        IN  /\ call.ret = (rejecting = {})
            /\ call.consulted = SubSeq(StageOrder, 1, last)

\* with all five stages on, an event the extension stage rejects although the
\* debounce stage would have suppressed it too
C3_Witness ==
    /\ call.op = "apply"
    /\ AllEnabled(CallConfig)
    /\ ~call.ret
    /\ Len(call.consulted) = 4
    /\ CallMapBefore # EmptyMap

\* C4: a disabled stage is a pass-through: an event shown under a configuration is
\* shown as well when any one stage of it is switched off, and with all five stages
\* switched off every event is shown, whatever the map holds.
C4_DisabledIsPassThrough ==
    LET c == filterConfig[1]
        m == recentChanges[MapRef(1)]
    IN  \A e \in PipelineEvents :
            /\ \A f \in FilterTypes :
                  applyAllFilters(e, c, m, now).ret
                     => applyAllFilters(e, toggleFilter(c, f, FALSE), m, now).ret
            /\ applyAllFilters(e, AllDisabled(c), m, now).ret

\* all stages on, entries in the map, one event shown and another one hidden
C4_Witness ==
    /\ AllEnabled(filterConfig[1])
    /\ recentChanges[MapRef(1)] # EmptyMap
    /\ \E e \in PipelineEvents :
          applyAllFilters(e, filterConfig[1], recentChanges[MapRef(1)], now).ret
    /\ \E e \in PipelineEvents :
          ~applyAllFilters(e, filterConfig[1], recentChanges[MapRef(1)], now).ret

RECURSIVE MapAfterCalls(_, _, _, _, _)
\* the map after applyAllFilters was called on events[1], ..., events[n] in turn
MapAfterCalls(events, n, config, map, t) ==
    IF n = 0 THEN map
    ELSE applyAllFilters(events[n], config,
                         MapAfterCalls(events, n - 1, config, map, t), t).map

\* C10: filterEvents calls applyAllFilters once per input event, in input order,
\* each call seeing the map as the calls before it left it, and returns exactly the
\* events whose call returned true, in their input order.
C10_FilterEventsInOrder ==
    call.op = "filterEvents" =>
        LET n == Len(call.input)
            kept == {i \in 1..n : call.log[i].ret}
        IN  /\ Len(call.log) = n
            /\ \A i \in 1..n :
                  /\ call.log[i].index = i
                  /\ call.log[i].ret =
                        applyAllFilters(call.input[i], CallConfig,
                            MapAfterCalls(call.input, i - 1, CallConfig,
                                          CallMapBefore, call.t), call.t).ret
            /\ CallMapAfter = MapAfterCalls(call.input, n, CallConfig, CallMapBefore, call.t)
            /\ Len(call.output) = Cardinality(kept)
            /\ \A i \in kept :
                  call.output[Cardinality({k \in kept : k <= i})] = call.input[i]

\* a batch whose first event passes and whose second, identical event is
\* suppressed by the entry the first call wrote
C10_Witness ==
    /\ call.op = "filterEvents"
    /\ Len(call.input) >= 2
    /\ call.input[1] = call.input[2]
    /\ call.log[1].ret
    /\ ~call.log[2].ret
    /\ Len(call.output) < Len(call.input)

-----------------------------------------------------------------------------
(* The debounce filter called directly *)

\* shouldDebounceEvent(event, recentChanges, filterConfig.debounce) on the map of
\* session s, at the current time
DebounceCall(s, e) ==
    LET config == filterConfig[s].debounce
        r == shouldDebounceEvent(e, recentChanges[MapRef(s)], config, now)
    IN  /\ recentChanges' = [recentChanges EXCEPT ![MapRef(s)] = r.map]
        /\ passedAt' = IF config.enabled /\ ~r.ret
                       THEN [passedAt EXCEPT ![e] = now] ELSE passedAt
        /\ call' = [NoCall EXCEPT !.op = "debounce", !.s = s, !.e = e, !.ret = r.ret,
                                  !.t = now, !.before = recentChanges,
                                  !.anchor = passedAt[e],
                                  !.burstBefore = call.burst,
                                  !.burst = IF ~r.ret THEN 0
                                            ELSE IF call.burst < MaxBurst
                                            THEN call.burst + 1 ELSE call.burst]
        /\ UNCHANGED <<now, filterConfig, fileEvents, arrivalNo, filteredEvents, seenKeys, storage, hook, timers, renderedConfig>>

\* useFileFilters.toggleFilter(filterType, enabled) of session s
ToggleFilter(s, filterType, enabled) ==
    /\ filterConfig' = [filterConfig EXCEPT ![s] = toggleFilter(@, filterType, enabled)]
    /\ call' = [NoCall EXCEPT !.burst = call.burst]
    /\ UNCHANGED <<now, recentChanges, fileEvents, arrivalNo, filteredEvents,
                   passedAt, seenKeys, storage, hook, timers, renderedConfig>>

\* the configurations of the debounce runs: only the debounce stage matters
DebounceConfigs == {ModelConfig(en, w) : en \in {{}, {"debounce"}}, w \in Windows}

\* Date.now() advances between two calls; the record of the last call is kept
DebounceTick ==
    /\ Clock(MaxTime)
    /\ UNCHANGED <<filterConfig, recentChanges, fileEvents, arrivalNo, filteredEvents,
                   passedAt, seenKeys, call, storage, hook, timers, renderedConfig>>

DebounceOne == \E e \in DebounceEvents : DebounceCall(1, e)

DebounceToggle == \E b \in BOOLEAN : ToggleFilter(1, "debounce", b)

InitDebounce == InitWith(DebounceConfigs)

NextDebounce == DebounceTick \/ DebounceOne \/ DebounceToggle

\* calls of shouldDebounceEvent on several events, the stage switched on and off
SpecDebounce == InitDebounce /\ [][NextDebounce]_vars

\* a burst: every call is on the event the map already holds (or on any event
\* while the map is empty)
BurstOne ==
    \E e \in DebounceEvents :
        /\ \A k \in DOMAIN recentChanges[MapRef(1)] : recentChanges[MapRef(1)][k].event = e
        /\ DebounceCall(1, e)

InitBurst == InitWith({c \in DebounceConfigs : c.debounce.enabled /\ c.debounce.timeWindowMs > 0})

NextBurst == DebounceTick \/ BurstOne

\* a sequence of events with the same path and kind, debounce on, constant window > 0
SpecBurst == InitBurst /\ [][NextBurst]_vars

-----------------------------------------------------------------------------
(* Properties of the debounce filter *)

\* C1: in a sequence of identical events with debounce on and a constant window
\* W > 0, an event is suppressed when the last event that passed did so less than W
\* ago, however many were suppressed in between, and it passes when that was W or
\* more ago: the map's timestamp is the time of the last passed event, never the
\* time of a suppressed one.
C1_WindowAnchoredAtLastPassed ==
    LET W == filterConfig[1].debounce.timeWindowMs
        m == recentChanges[MapRef(1)]
    IN  /\ (call.op = "debounce" /\ call.anchor # None) =>
              /\ (call.t < call.anchor + W) => call.ret
              /\ (call.t >= call.anchor + W) => ~call.ret
        /\ (call.op = "debounce" /\ call.anchor = None) => ~call.ret
        /\ \A e \in DebounceEvents :
              createDebounceKey(e) \in DOMAIN m /\ m[createDebounceKey(e)].event = e
                 => m[createDebounceKey(e)].timestamp = passedAt[e]

\* an event passes once the window of the last passed one is over, after two or
\* more identical events were suppressed inside that window
C1_Witness ==
    /\ call.op = "debounce"
    /\ ~call.ret
    /\ call.anchor # None
    /\ call.burstBefore >= 2
    /\ call.t >= call.anchor + filterConfig[1].debounce.timeWindowMs

C7_SuppressedOnlyByIdentical ==
    (call.op = "debounce" /\ call.ret) =>
        /\ call.anchor # None
        /\ call.t - call.anchor < CallConfig.debounce.timeWindowMs

-----------------------------------------------------------------------------
(* Two useFileFilters sessions side by side *)

SessionEvents == {eJs, eOk}

SessionConfigs == {ModelConfig(en, 1) : en \in {{}, {"debounce"}, {"extensions", "debounce"}}}

SessionShow == \E s \in Sessions : \E e \in SessionEvents : ShouldShowEvent(s, e)

SessionFilter == \E s \in Sessions : \E b \in Batches(SessionEvents) : FilterEventsCall(s, b)

SessionToggle == \E s \in Sessions : \E b \in BOOLEAN : ToggleFilter(s, "debounce", b)

SessionTick == TickTo(MaxPipelineTime)

InitSessions == InitWith(SessionConfigs)

NextSessions == SessionTick \/ SessionShow \/ SessionFilter \/ SessionToggle

SpecSessions == InitSessions /\ [][NextSessions]_vars

\* C9: each session owns its recentChanges map: a call of shouldShowEvent or
\* filterEvents in one session leaves the map of the other session as it was and
\* changes no show/hide decision of the other session.
C9_SessionsAreIndependent ==
    call.op \in {"apply", "filterEvents"} =>
        \A o \in Sessions \ {call.s} :
            /\ recentChanges[MapRef(o)] = call.before[MapRef(o)]
            /\ \A e \in SessionEvents :
                  applyAllFilters(e, filterConfig[o], recentChanges[MapRef(o)], call.t).ret
                    = applyAllFilters(e, filterConfig[o], call.before[MapRef(o)], call.t).ret

\* an event is shown in one session although the other session's map holds an entry
\* of the same key that is younger than the other session's window
C9_Witness ==
    /\ call.op = "apply"
    /\ call.ret
    /\ CallConfig.debounce.enabled
    /\ \E o \in Sessions \ {call.s} :
          /\ filterConfig[o].debounce.enabled
          /\ createDebounceKey(call.e) \in DOMAIN recentChanges[MapRef(o)]
          /\ call.t - recentChanges[MapRef(o)][createDebounceKey(call.e)].timestamp
                < filterConfig[o].debounce.timeWindowMs

-----------------------------------------------------------------------------
(* A watch session: useFileWatcher feeding useFileFilters.filterEvents *)

WatchEvents == {eDir, eOk}

\* the 'file-change' listener: setFileEvents(prev => [fileEvent, ...prev])
FileChange(s, e) ==
    /\ Len(fileEvents[s]) < MaxEvents
    /\ fileEvents' = [fileEvents EXCEPT ![s] = <<e>> \o @]
    /\ arrivalNo' = [arrivalNo EXCEPT ![s] = <<Len(@) + 1>> \o @]
    /\ call' = NoCall
    /\ UNCHANGED <<now, filterConfig, recentChanges, filteredEvents, passedAt, seenKeys, storage, hook, timers, renderedConfig>>

\* clearEvents: setFileEvents([])
ClearEvents(s) ==
    /\ fileEvents[s] # <<>>
    /\ fileEvents' = [fileEvents EXCEPT ![s] = <<>>]
    /\ arrivalNo' = [arrivalNo EXCEPT ![s] = <<>>]
    /\ call' = NoCall
    /\ UNCHANGED <<now, filterConfig, recentChanges, filteredEvents, passedAt, seenKeys, storage, hook, timers, renderedConfig>>

\* mutant: the effect leaves the stages as the user set them
DefaultFilterEffectKeepsStages(config) == config

\* the effect of useFileWatcher that runs after every render (its dependency, the
\* filterHooks object, is new on every render): directories on, the other stages off
DefaultFilterEffect(config) ==
    LET c1 == IF ~config.directories.enabled
              THEN toggleFilter(config, "directories", TRUE) ELSE config
        c2 == IF config.patterns.enabled THEN toggleFilter(c1, "patterns", FALSE) ELSE c1
        c3 == IF config.extensions.enabled THEN toggleFilter(c2, "extensions", FALSE) ELSE c2
        c4 == IF config.eventTypes.enabled THEN toggleFilter(c3, "eventTypes", FALSE) ELSE c3
    IN  IF config.debounce.enabled THEN toggleFilter(c4, "debounce", FALSE) ELSE c4

\* one render of useFileWatcher: filteredEvents is recomputed from the whole
\* fileEvents list, then the effects of the render run
Render(s) ==
    LET r == filterEvents(fileEvents[s], filterConfig[s], recentChanges[MapRef(s)], now)
    IN  /\ filteredEvents' = [filteredEvents EXCEPT ![s] = r.output]
        /\ recentChanges' = [recentChanges EXCEPT ![MapRef(s)] = r.map]
        /\ filterConfig' = [filterConfig EXCEPT ![s] = DefaultFilterEffect(@)]
        /\ call' = [NoCall EXCEPT !.op = "render", !.s = s, !.input = fileEvents[s],
                                  !.output = r.output, !.log = r.log, !.t = now,
                                  !.before = recentChanges, !.arrivals = arrivalNo[s],
                                  !.prevConfig = renderedConfig[s],
                                  !.prevOutput = filteredEvents[s],
                                  !.consulted = IF filterConfig[s].debounce.enabled
                                                THEN <<"debounce">> ELSE <<>>]
        /\ renderedConfig' = [renderedConfig EXCEPT ![s] = filterConfig[s]]
        /\ UNCHANGED <<now, fileEvents, arrivalNo, passedAt, seenKeys, storage, hook, timers>>

WatchArrive == \E e \in WatchEvents : FileChange(1, e)

WatchClear == ClearEvents(1)

WatchRender == Render(1)

WatchToggle == \E f \in {"directories", "debounce"} : \E b \in BOOLEAN : ToggleFilter(1, f, b)

WatchTick == TickTo(MaxPipelineTime)

\* the configuration the first renders leave: directories on, the other stages off
InitWatch == InitWith({ModelConfig({"directories"}, 1)})

NextWatch == WatchTick \/ WatchArrive \/ WatchClear \/ WatchRender \/ WatchToggle

SpecWatch == InitWatch /\ [][NextWatch]_vars

\* C8: in a watch session the events are handed to the pipeline in the order they
\* arrived: within a render an event that arrived earlier is evaluated before every
\* event that arrived later, so that of two identical events that meet an empty
\* map with debounce on, the one that arrived first is shown and the later one hidden.
C8_EvaluatedInArrivalOrder ==
    call.op = "render" =>
        /\ \A i, j \in 1..Len(call.log) :
              i < j => call.arrivals[call.log[i].index] < call.arrivals[call.log[j].index]
        /\ call.consulted = <<"debounce">> =>
              \A i, j \in 1..Len(call.input) :
                  (/\ call.input[i] = call.input[j]
                   /\ call.arrivals[i] < call.arrivals[j]
                   /\ \A k \in 1..Len(call.input) :
                         call.input[k] = call.input[i] => call.arrivals[i] <= call.arrivals[k]
                   /\ createDebounceKey(call.input[i]) \notin DOMAIN CallMapBefore
                   /\ \E k \in 1..Len(call.output) : call.output[k] = call.input[i])
                  => \E l \in 1..Len(call.log) :
                        call.log[l].index = i /\ call.log[l].ret

-----------------------------------------------------------------------------
(* The path-based filters as functions of the spelling of a path: a path is a   *)
(* list of segments, written with "/" or "\" separators, with or without a      *)
(* trailing separator.                                                          *)

MaxList == 2          \* longest list of a stage configuration in the path runs

sFoo == <<"f","o","o">>
sBar == <<"b","a","r">>
sBarbell == <<"b","a","r","b","e","l","l">>
sW == <<"w">>
sXTxt == <<"x",".","t","x","t">>

Separators == {"/", "\\"}

RECURSIVE JoinSegments(_, _)
JoinSegments(segs, sep) ==
    IF segs = <<>> THEN <<>>
    ELSE <<sep>> \o Head(segs) \o JoinSegments(Tail(segs), sep)

\* the absolute path of the segments, written with sep
Spell(segs, sep, trailing) ==
    JoinSegments(segs, sep) \o (IF trailing THEN <<sep>> ELSE <<>>)

\* a spelt path: its segments and how it is written
Spelt(segs, sep, trailing) == [segs |-> segs, text |-> Spell(segs, sep, trailing)]

DirectoryPaths ==
    { <<sFoo, sBar>>, <<sFoo, sBar, sXTxt>>, <<sFoo, sBarbell, sXTxt>>, <<sFoo>>, <<sW, sXTxt>> }

IgnoredDirs == { <<sFoo, sBar>>, <<sW>> }

Spellings(S) == {Spelt(p, sep, tr) : p \in S, sep \in Separators, tr \in BOOLEAN}

DirLists == UNION {[1..n -> Spellings(IgnoredDirs)] : n \in 0..MaxList}

DirectoryConfig(enabled, dirs) ==
    [enabled |-> enabled, ignoredDirectories |-> [i \in 1..Len(dirs) |-> dirs[i].text]]

\* the same list with every directory written the POSIX way, no trailing separator
PosixDirectoryConfig(enabled, dirs) ==
    [enabled |-> enabled,
     ignoredDirectories |-> [i \in 1..Len(dirs) |-> Spell(dirs[i].segs, "/", FALSE)]]

\* the arguments of one isInIgnoredDirectory call
DirectoryInputs ==
    {[op |-> "input", fn |-> "isInIgnoredDirectory", path |-> p, dirs |-> dirs,
      config |-> DirectoryConfig(en, dirs)] :
        p \in Spellings(DirectoryPaths), dirs \in DirLists, en \in BOOLEAN}

\* isInIgnoredDirectory(path, config), and the same call with the path and every
\* directory written the POSIX way
DirectoryCheck ==
    /\ call.op = "input" /\ call.fn = "isInIgnoredDirectory"
    /\ call' = [op |-> "isInIgnoredDirectory", path |-> call.path, dirs |-> call.dirs,
                config |-> call.config,
                ret |-> isInIgnoredDirectory(call.path.text, call.config),
                retPosix |-> isInIgnoredDirectory(
                                Spell(call.path.segs, "/", FALSE),
                                PosixDirectoryConfig(call.config.enabled, call.dirs))]
    /\ UNCHANGED <<now, filterConfig, recentChanges, fileEvents, arrivalNo,
                   filteredEvents, passedAt, seenKeys, storage, hook, timers, renderedConfig>>

\* file paths whose base name or extension depends on where the last separator is
sATmp == <<"a",".","t","m","p">>
sDSStore == <<".","D","S","_","S","t","o","r","e">>
sWD == <<"w",".","d">>
sMakefile == <<"m","a","k","e","f","i","l","e">>
sEnv == <<".","e","n","v">>
sATs == <<"a",".","t","s">>

FilePaths ==
    { <<sW, sATmp>>, <<sW, sDSStore>>, <<sWD, sMakefile>>, <<sW, sEnv>>, <<sW, sATs>>,
      <<sFoo, sBar, sATs>> }

SpeltFiles == {Spelt(p, sep, FALSE) : p \in FilePaths, sep \in Separators}

ListsOver(S) == UNION {[1..n -> S] : n \in 0..MaxList}

PatternConfigs ==
    {[enabled |-> en, ignoredPatterns |-> l] :
        en \in BOOLEAN, l \in ListsOver({ <<"*",".","t","m","p">>, sDSStore, <<"a",".","*">> })}

ExtensionConfigs ==
    {[enabled |-> en, watchedExtensions |-> l, mode |-> m] :
        en \in BOOLEAN, l \in ListsOver({ <<".","t","s">>, sEnv }), m \in {"include", "exclude"}}

\* a FilterConfig with the stages in en enabled, for whole-pipeline calls
PathsConfig(en) ==
    [ModelConfig(en, 0) EXCEPT !.patterns.ignoredPatterns = << sDSStore >>,
                               !.extensions.watchedExtensions = << <<".","t","s">>, sEnv >>]

PatternInputs ==
    {[op |-> "input", fn |-> "matchesIgnoredPattern", path |-> p, config |-> c] :
        p \in SpeltFiles, c \in PatternConfigs}

ExtensionInputs ==
    {[op |-> "input", fn |-> "matchesExtensionFilter", path |-> p, config |-> c] :
        p \in SpeltFiles, c \in ExtensionConfigs}

PipelineInputs ==
    {[op |-> "input", fn |-> "applyAllFilters", path |-> p, config |-> PathsConfig(en)] :
        p \in SpeltFiles, en \in SUBSET FilterTypes}

\* matchesIgnoredPattern(path, config), and the same call with the path written
\* with "/" separators
PatternCheck ==
    /\ call.op = "input" /\ call.fn = "matchesIgnoredPattern"
    /\ call' = [op |-> "matchesIgnoredPattern", path |-> call.path, config |-> call.config,
                ret |-> matchesIgnoredPattern(call.path.text, call.config),
                retPosix |-> matchesIgnoredPattern(Spell(call.path.segs, "/", FALSE),
                                                   call.config)]
    /\ UNCHANGED <<now, filterConfig, recentChanges, fileEvents, arrivalNo,
                   filteredEvents, passedAt, seenKeys, storage, hook, timers, renderedConfig>>

ExtensionCheck ==
    /\ call.op = "input" /\ call.fn = "matchesExtensionFilter"
    /\ call' = [op |-> "matchesExtensionFilter", path |-> call.path, config |-> call.config,
                ret |-> matchesExtensionFilter(call.path.text, call.config),
                retPosix |-> matchesExtensionFilter(Spell(call.path.segs, "/", FALSE),
                                                    call.config)]
    /\ UNCHANGED <<now, filterConfig, recentChanges, fileEvents, arrivalNo,
                   filteredEvents, passedAt, seenKeys, storage, hook, timers, renderedConfig>>

\* applyAllFilters on a modify event of the path, against an empty map
PipelineCheck ==
    /\ call.op = "input" /\ call.fn = "applyAllFilters"
    /\ call' = [op |-> "applyAllFilters", path |-> call.path, config |-> call.config,
                ret |-> applyAllFilters(Event(call.path.text, kModify), call.config,
                                        EmptyMap, now).ret,
                retPosix |-> applyAllFilters(
                                Event(Spell(call.path.segs, "/", FALSE), kModify),
                                call.config, EmptyMap, now).ret]
    /\ UNCHANGED <<now, filterConfig, recentChanges, fileEvents, arrivalNo,
                   filteredEvents, passedAt, seenKeys, storage, hook, timers, renderedConfig>>

PathInputs == DirectoryInputs \cup PatternInputs \cup ExtensionInputs \cup PipelineInputs

InitPaths ==
    /\ now = 0
    /\ filterConfig = [s \in Sessions |-> ModelConfig({}, 0)]
    /\ recentChanges = [s \in Sessions |-> EmptyMap]
    /\ fileEvents = [s \in Sessions |-> <<>>]
    /\ arrivalNo = [s \in Sessions |-> <<>>]
    /\ filteredEvents = [s \in Sessions |-> <<>>]
    /\ passedAt = [e \in AllEvents |-> None]
    /\ seenKeys = {}
    /\ HooksIdle
    /\ call \in PathInputs

NextPaths == DirectoryCheck \/ PatternCheck \/ ExtensionCheck \/ PipelineCheck

SpecPaths == InitPaths /\ [][NextPaths]_vars

\* the segments of dir are the first segments of path
SegmentPrefix(dir, path) == Len(dir) <= Len(path) /\ SubSeq(path, 1, Len(dir)) = dir

\* C11: isInIgnoredDirectory is false when the stage is disabled or the list is
\* empty; otherwise it is true iff for some configured directory d the normalized
\* path equals normalized d or starts with normalized d + "/", where normalizing
\* turns every "\" into "/" and strips one trailing "/".  Hence a directory covers
\* itself and the paths below it segment by segment ("/foo/bar" covers "/foo/bar"
\* and "/foo/bar/x.txt", never "/foo/barbell/x.txt"), and the "\" and "/"
\* spellings of the same path and directories get the same answer.
C11_IgnoredDirectoryContract ==
    call.op = "isInIgnoredDirectory" =>
        LET dirs == call.config.ignoredDirectories
            n(x) == LET r == [i \in 1..Len(x) |-> IF x[i] = "\\" THEN "/" ELSE x[i]]
                    IN  IF Len(r) > 0 /\ r[Len(r)] = "/" THEN SubSeq(r, 1, Len(r) - 1) ELSE r
        IN  /\ (~call.config.enabled \/ Len(dirs) = 0) => ~call.ret
            /\ (call.config.enabled /\ Len(dirs) > 0) =>
                  (call.ret <=> \E i \in 1..Len(dirs) :
                                   \/ n(call.path.text) = n(dirs[i])
                                   \/ StartsWith(n(call.path.text), n(dirs[i]) \o <<"/">>))
            /\ (call.config.enabled /\ Len(dirs) > 0) =>
                  (call.ret <=> \E i \in 1..Len(call.dirs) :
                                   SegmentPrefix(call.dirs[i].segs, call.path.segs))
            /\ call.ret = call.retPosix

\* a Windows-spelt path below a directory configured with a trailing "/", next to
\* a list whose directory is a proper name prefix of the path's segment
C11_Witness ==
    /\ call.op = "isInIgnoredDirectory"
    /\ call.ret
    /\ call.path.text = Spell(<<sFoo, sBar, sXTxt>>, "\\", FALSE)
    /\ call.config.ignoredDirectories = << Spell(<<sFoo, sBar>>, "/", TRUE) >>

\* C12: every path-based filter normalizes the path: matchesIgnoredPattern,
\* matchesExtensionFilter and applyAllFilters decide the same for a path written
\* with "\" separators as for the same path written with "/" separators.
C12_SeparatorSpellingAgrees ==
    call.op \in {"matchesIgnoredPattern", "matchesExtensionFilter", "applyAllFilters"}
        => call.ret = call.retPosix

-----------------------------------------------------------------------------
(* detectRepoType as a function of the entries of a repository *)

\* entries of a repository root, some with a directory part or in upper case
FileEntries ==
    { <<"p","a","c","k","a","g","e",".","j","s","o","n">>,
      <<"/","r","/","t","s","c","o","n","f","i","g",".","j","s","o","n">>,
      <<"y","a","r","n",".","l","o","c","k">>,
      <<"C","a","r","g","o",".","t","o","m","l">>,
      <<"/","r","/","S","e","t","u","p",".","P","Y">>,
      <<"g","o",".","m","o","d">>,
      <<"M","a","k","e","f","i","l","e">> }

DirectoryEntries ==
    { <<"/","r","/","n","o","d","e","_","m","o","d","u","l","e","s">>,
      <<"t","a","r","g","e","t">>,
      <<"s","r","c">>,
      <<"V","e","n","d","o","r">> }

DetectInputs ==
    {[op |-> "input", fn |-> "detectRepoType", files |-> f, directories |-> d] :
        f \in ListsOver(FileEntries), d \in ListsOver(DirectoryEntries)}

DetectCheck ==
    /\ call.op = "input" /\ call.fn = "detectRepoType"
    /\ call' = [op |-> "detectRepoType", files |-> call.files,
                directories |-> call.directories,
                ret |-> detectRepoType(call.files, call.directories)]
    /\ UNCHANGED <<now, filterConfig, recentChanges, fileEvents, arrivalNo,
                   filteredEvents, passedAt, seenKeys, storage, hook, timers, renderedConfig>>

\* directories handed to detectRepoTypeAsync
RepoDirectories ==
    { <<"/","h","o","m","e","/","a","p","p">>,
      <<"/","h","o","m","e","/","m","y","-","j","s","-","a","p","p">>,
      <<"/","h","o","m","e","/","s","c","r","i","p","t","s">>,
      <<"/","h","o","m","e","/","G","o","L","a","n","g">> }

\* paths the listing command returns: files, directories and a hidden entry
ListedPaths ==
    { <<"/","r","/","p","a","c","k","a","g","e",".","j","s","o","n">>,
      <<"/","r","/","t","s","c","o","n","f","i","g",".","j","s","o","n">>,
      <<"/","r","/","n","o","d","e","_","m","o","d","u","l","e","s">>,
      <<"/","r","/","C","a","r","g","o",".","t","o","m","l">>,
      <<"/","r","/","t","a","r","g","e","t">>,
      <<"/","r","/","g","o",".","m","o","d">>,
      <<"/","r","/",".","g","i","t">>,
      <<"/","r","/","a","p","p",".","c","s","p","r","o","j">>,
      <<"/","r","/","v","e","n","v">> }

\* what the Tauri API does during one detection
TauriOutcomes ==
    {[kind |-> "importFails"], [kind |-> "invokeRejects"], [kind |-> "notAnArray"]}
        \cup {[kind |-> "files", files |-> l] : l \in ListsOver(ListedPaths)}

AsyncDetectInputs ==
    {[op |-> "input", fn |-> "detectRepoTypeAsync", directoryPath |-> d, tauri |-> o] :
        d \in RepoDirectories, o \in TauriOutcomes}

AsyncDetectCheck ==
    /\ call.op = "input" /\ call.fn = "detectRepoTypeAsync"
    /\ call' = [op |-> "detectRepoTypeAsync", directoryPath |-> call.directoryPath,
                tauri |-> call.tauri,
                promise |-> detectRepoTypeAsync(call.directoryPath, call.tauri)]
    /\ UNCHANGED <<now, filterConfig, recentChanges, fileEvents, arrivalNo,
                   filteredEvents, passedAt, seenKeys, storage, hook, timers, renderedConfig>>


InitDetect ==
    /\ now = 0
    /\ filterConfig = [s \in Sessions |-> ModelConfig({}, 0)]
    /\ recentChanges = [s \in Sessions |-> EmptyMap]
    /\ fileEvents = [s \in Sessions |-> <<>>]
    /\ arrivalNo = [s \in Sessions |-> <<>>]
    /\ filteredEvents = [s \in Sessions |-> <<>>]
    /\ passedAt = [e \in AllEvents |-> None]
    /\ seenKeys = {}
    /\ HooksIdle
    /\ call \in DetectInputs \cup AsyncDetectInputs

NextDetect == DetectCheck \/ AsyncDetectCheck

SpecDetect == InitDetect /\ [][NextDetect]_vars

\* the position of a type in the declaration order
DeclaredAt(t) == CHOOSE i \in RepoTypeIndex : REPO_TYPE_SIGNATURES[i].repoType = t

\* C13: detectRepoType returns the type with the strictly highest score (the
\* number of its signature files among the base names of the files plus the
\* number of its signature directories among those of the directories, compared
\* case-insensitively); among the types tied for the highest score the
\* first-declared one, except that typescript is returned when javascript and
\* typescript are tied for it above zero and tsconfig.json is present; and
\* generic exactly when no type scores above zero.
C13_HighestScoreWins ==
    call.op = "detectRepoType" =>
        LET names(entries) == {BaseName(ToLowerCase(entries[i])) : i \in 1..Len(entries)}
            score(i) ==
                Cardinality({ToLowerCase(REPO_TYPE_SIGNATURES[i].files[j]) :
                                j \in 1..Len(REPO_TYPE_SIGNATURES[i].files)}
                            \cap names(call.files))
              + Cardinality({ToLowerCase(REPO_TYPE_SIGNATURES[i].directories[j]) :
                                j \in 1..Len(REPO_TYPE_SIGNATURES[i].directories)}
                            \cap names(call.directories))
            highest == CHOOSE m \in {score(i) : i \in RepoTypeIndex} :
                           \A i \in RepoTypeIndex : score(i) <= m
            tied == {i \in RepoTypeIndex : score(i) = highest}
            first == CHOOSE i \in tied : \A k \in tied : i <= k
        IN  /\ (call.ret = "generic") <=> (highest = 0)
            /\ highest > 0 =>
                  call.ret = IF /\ {DeclaredAt("javascript"), DeclaredAt("typescript")}
                                       \subseteq tied
                                /\ sTsconfigJson \in names(call.files)
                             THEN "typescript"
                             ELSE REPO_TYPE_SIGNATURES[first].repoType

\* C14: detectRepoTypeAsync never rejects, and whenever the directory-listing
\* call fails it resolves to generic, whatever the directory path is.
C14_ListingFailureYieldsGeneric ==
    call.op = "detectRepoTypeAsync" =>
        /\ call.promise.state = "fulfilled"
        /\ call.tauri.kind \in {"importFails", "invokeRejects"}
              => call.promise.value = "generic"

-----------------------------------------------------------------------------
(* The functions of filterSettings.ts on the configurations a session can hold *)

\* a configuration with activePreset absent, set, or holding undefined
WithPreset(config, preset) ==
    IF preset = "absent" THEN config ELSE SetProperty(config, "activePreset", preset)

StoreConfigs ==
    {WithPreset(ModelConfig(en, w), p) :
        en \in SUBSET FilterTypes, w \in Windows, p \in {"absent", "rust", Undefined}}

PresetInputs ==
    {[op |-> "input", fn |-> "applyRepoTypePreset", config |-> c, repoType |-> t] :
        c \in StoreConfigs, t \in RepoTypes}

PresetCheck ==
    /\ call.op = "input" /\ call.fn = "applyRepoTypePreset"
    /\ LET r == applyRepoTypePreset(call.config, call.repoType)
       IN  call' = [op |-> "applyRepoTypePreset", config |-> call.config,
                    repoType |-> call.repoType, ret |-> r.ret, configAfter |-> r.config]
    /\ UNCHANGED <<now, filterConfig, recentChanges, fileEvents, arrivalNo,
                   filteredEvents, passedAt, seenKeys, storage, hook, timers, renderedConfig>>

\* JSON values that are no FilterConfig: one stage only, and another object
StoredNonConfigs ==
    { [patterns |-> DEFAULT_FILTER_CONFIG.patterns], [version |-> <<"1">>] }

StoredItems ==
    {NoItem, EmptyItem, MalformedItem}
        \cup {JsonStringify(c) : c \in StoreConfigs}
        \cup {[kind |-> "json", value |-> v] : v \in StoredNonConfigs}

LoadInputs ==
    {[op |-> "input", fn |-> "loadFilterConfig", item |-> i, getItemThrows |-> g] :
        i \in StoredItems, g \in BOOLEAN}

LoadCheck ==
    /\ call.op = "input" /\ call.fn = "loadFilterConfig"
    /\ LET r == loadFilterConfig(call.item, call.getItemThrows)
       IN  call' = [op |-> "loadFilterConfig", item |-> call.item,
                    getItemThrows |-> call.getItemThrows, threw |-> r.threw, ret |-> r.ret]
    /\ UNCHANGED <<now, filterConfig, recentChanges, fileEvents, arrivalNo,
                   filteredEvents, passedAt, seenKeys, storage, hook, timers, renderedConfig>>

RoundTripInputs ==
    {[op |-> "input", fn |-> "saveThenLoad", config |-> c, item |-> i,
      setItemThrows |-> st, getItemThrows |-> g] :
        c \in StoreConfigs, i \in {NoItem, JsonStringify(DEFAULT_FILTER_CONFIG)},
        st \in BOOLEAN, g \in BOOLEAN}

\* saveFilterConfig(config) and then loadFilterConfig(), nothing else writing
RoundTripCheck ==
    /\ call.op = "input" /\ call.fn = "saveThenLoad"
    /\ LET saved == saveFilterConfig(call.config, call.item, call.setItemThrows)
           r == loadFilterConfig(saved, call.getItemThrows)
       IN  call' = [op |-> "saveThenLoad", config |-> call.config, item |-> call.item,
                    setItemThrows |-> call.setItemThrows,
                    getItemThrows |-> call.getItemThrows,
                    saved |-> saved, threw |-> r.threw, ret |-> r.ret]
    /\ UNCHANGED <<now, filterConfig, recentChanges, fileEvents, arrivalNo,
                   filteredEvents, passedAt, seenKeys, storage, hook, timers, renderedConfig>>

StoreInputs == PresetInputs \cup LoadInputs \cup RoundTripInputs

InitStore ==
    /\ now = 0
    /\ filterConfig = [s \in Sessions |-> ModelConfig({}, 0)]
    /\ recentChanges = [s \in Sessions |-> EmptyMap]
    /\ fileEvents = [s \in Sessions |-> <<>>]
    /\ arrivalNo = [s \in Sessions |-> <<>>]
    /\ filteredEvents = [s \in Sessions |-> <<>>]
    /\ passedAt = [e \in AllEvents |-> None]
    /\ seenKeys = {}
    /\ HooksIdle
    /\ call \in StoreInputs

NextStore == PresetCheck \/ LoadCheck \/ RoundTripCheck

SpecStore == InitStore /\ [][NextStore]_vars

\* C15: applyRepoTypePreset(config, t) returns a config whose stages present in
\* preset t hold the preset's values, whose other stages equal the input's, and
\* whose activePreset is t; the go preset keeps a customized debounce.timeWindowMs
\* (and patterns, eventTypes) while replacing directories and extensions; the input
\* config is not modified.
C15_PresetIsPartialMerge ==
    call.op = "applyRepoTypePreset" =>
        LET preset == REPO_TYPE_PRESETS[call.repoType]
        IN  /\ DOMAIN call.ret = FilterTypes \cup {"activePreset"}
            /\ \A stage \in FilterTypes :
                  call.ret[stage] = IF stage \in DOMAIN preset THEN preset[stage]
                                    ELSE call.config[stage]
            /\ call.ret.activePreset = call.repoType
            /\ call.configAfter = call.config
            /\ call.repoType = "go" =>
                  /\ call.ret.debounce = call.config.debounce
                  /\ call.ret.patterns = call.config.patterns
                  /\ call.ret.eventTypes = call.config.eventTypes
                  /\ call.ret.directories.ignoredDirectories =
                        << <<"v","e","n","d","o","r">>, <<"b","i","n">>, <<"p","k","g">> >>
                  /\ call.ret.extensions.watchedExtensions =
                        << <<".","g","o">>, <<".","m","o","d">>, <<".","s","u","m">>,
                           <<".","p","r","o","t","o">> >>

\* the go preset applied to a config with debounce on and a window other than the
\* default, whose directory and extension stages were off
C15_Witness ==
    /\ call.op = "applyRepoTypePreset"
    /\ call.repoType = "go"
    /\ call.config.debounce = [enabled |-> TRUE, timeWindowMs |-> 2]
    /\ ~call.config.directories.enabled
    /\ call.ret.directories.enabled
    /\ call.ret.debounce.timeWindowMs = 2

\* a value with the five stage configs
HasAllStages(value) == FilterTypes \subseteq DOMAIN value

\* C16: loadFilterConfig never throws, and whenever the stored value is missing
\* or malformed (not JSON, or JSON of something that is no FilterConfig) it returns
\* the default configuration, so that what it returns always has all five stages.
C16_LoadFallsBackToDefault ==
    call.op = "loadFilterConfig" =>
        /\ ~call.threw
        /\ (call.item.kind # "json" \/ ~HasAllStages(call.item.value))
              => call.ret = DEFAULT_FILTER_CONFIG
        /\ HasAllStages(call.ret)

\* deep equality of two configs; a property holding undefined counts as absent
DefinedKeys(value) ==
    {k \in DOMAIN value : IF k = "activePreset" THEN value[k] # Undefined ELSE TRUE}

DeepEqual(a, b) ==
    /\ DefinedKeys(a) = DefinedKeys(b)
    /\ \A k \in DefinedKeys(a) : a[k] = b[k]

-----------------------------------------------------------------------------
(* useFileFilters: the life of a hook instance.  A session's filterConfig is  *)
(* the state its last render saw; hook[s].next is the state after the queued  *)
(* updates.  Objects that useEffect compares by identity carry a reference    *)
(* mark: "default" for DEFAULT_FILTER_CONFIG and its debounce object, "a" or  *)
(* "b" for an object created since.                                           *)

MaxUpdates == 3       \* setFilterConfig calls of all sessions in one run
MaxTimers == 3        \* interval ids the model hands out

TimerIds == 1..MaxTimers

\* the mark of an object created after the render whose mark is rendered
FreshRef(rendered) == IF rendered = "a" THEN "b" ELSE "a"

\* mutant: the effect has no cleanup
ClearIntervalLeaky(scheduled, id) == scheduled

\* clearInterval(id)
ClearInterval(scheduled, id) == {t \in scheduled : t.id # id}

FreeTimerIds(scheduled) == TimerIds \ {t.id : t \in scheduled}

\* the id setInterval returns
NewTimerId(scheduled) ==
    CHOOSE i \in FreeTimerIds(scheduled) : \A j \in FreeTimerIds(scheduled) : i <= j

\* setInterval(callback, 30000): the callback closes over the debounce config
\* of the render that ran the effect and over the session's map
SetInterval(scheduled, s, debounce) ==
    scheduled \cup {[id |-> NewTimerId(scheduled), s |-> s, debounce |-> debounce]}

\* mutant: the callback empties the map
IntervalSweepClears(map, debounce, t) ==
    IF debounce.enabled THEN EmptyMap ELSE map

\* the interval callback
IntervalSweep(map, debounce, t) ==
    IF debounce.enabled
    THEN LET maxAge == debounce.timeWindowMs * 10
         IN  MapDeleteAll(map, {k \in DOMAIN map : t - map[k].timestamp > maxAge})
    ELSE map

UpdatesDone == hook[1].updates + hook[2].updates

\* first render and its effects, in order: load (a state update unless the
\* default object came back), save of the rendered state, interval
Mount(s) ==
    /\ ~hook[s].mounted
    /\ UpdatesDone < MaxUpdates
    /\ FreeTimerIds(timers) # {}
    /\ LET loaded == loadFilterConfig(storage, FALSE).ret
           isDefault == storage.kind # "json"
       IN  /\ filterConfig' = [filterConfig EXCEPT ![s] = DEFAULT_FILTER_CONFIG]
           /\ recentChanges' = [recentChanges EXCEPT ![MapRef(s)] = EmptyMap]
           /\ storage' = saveFilterConfig(DEFAULT_FILTER_CONFIG, storage, FALSE)
           /\ timers' = SetInterval(timers, s, DEFAULT_FILTER_CONFIG.debounce)
           /\ hook' = [hook EXCEPT ![s] =
                  [mounted |-> TRUE, needsRender |-> ~isDefault, updates |-> @.updates + 1,
                   next |-> loaded,
                   configRef |-> IF isDefault THEN "default" ELSE "a",
                   debounceRef |-> IF isDefault THEN "default" ELSE "a",
                   renderedConfigRef |-> "default", renderedDebounceRef |-> "default",
                   intervalId |-> NewTimerId(timers), detect |-> @.detect]]
    /\ call' = [op |-> "mount", s |-> s]
    /\ UNCHANGED <<now, fileEvents, arrivalNo, filteredEvents, passedAt, seenKeys, renderedConfig>>

\* a render with the queued state and the effects whose dependencies changed
RenderEffects(s) ==
    LET h == hook[s]
        intervalRuns == h.debounceRef # h.renderedDebounceRef
        cleared == ClearInterval(timers, h.intervalId)
    IN  /\ h.mounted /\ h.needsRender
        /\ intervalRuns => FreeTimerIds(cleared) # {}
        /\ filterConfig' = [filterConfig EXCEPT ![s] = h.next]
        /\ storage' = IF h.configRef # h.renderedConfigRef
                      THEN saveFilterConfig(h.next, storage, FALSE)
                      ELSE storage
        /\ timers' = IF intervalRuns THEN SetInterval(cleared, s, h.next.debounce)
                     ELSE timers
        /\ hook' = [hook EXCEPT ![s].needsRender = FALSE,
                                ![s].renderedConfigRef = h.configRef,
                                ![s].renderedDebounceRef = h.debounceRef,
                                ![s].intervalId = IF intervalRuns THEN NewTimerId(cleared)
                                                  ELSE h.intervalId]
        /\ call' = [op |-> "effects", s |-> s]
    /\ UNCHANGED <<now, fileEvents, arrivalNo, filteredEvents, passedAt, seenKeys, recentChanges, renderedConfig>>

\* setFilterConfig: the queued state becomes next, an object with the given
\* marks; no render follows when it is the object the last render saw
QueuedState(s, next, configRef, debounceRef) ==
    [hook EXCEPT ![s].next = next,
                 ![s].configRef = configRef,
                 ![s].debounceRef = debounceRef,
                 ![s].needsRender = (configRef # hook[s].renderedConfigRef),
                 ![s].updates = @ + 1]

SetFilterConfig(s, op, next, configRef, debounceRef) ==
    /\ hook[s].mounted
    /\ UpdatesDone < MaxUpdates
    /\ hook' = QueuedState(s, next, configRef, debounceRef)
    /\ call' = [op |-> op, s |-> s]

\* an update that replaces one stage object of the queued state
UpdateStage(s, op, next, stage) ==
    /\ SetFilterConfig(s, op, next, FreshRef(hook[s].renderedConfigRef),
                       IF stage = "debounce" THEN FreshRef(hook[s].renderedDebounceRef)
                       ELSE hook[s].debounceRef)
    /\ UNCHANGED <<now, fileEvents, arrivalNo, filteredEvents, passedAt, seenKeys, filterConfig, recentChanges, storage, timers, renderedConfig>>

HookToggleFilter(s, filterType, enabled) ==
    UpdateStage(s, "toggleFilter", toggleFilter(hook[s].next, filterType, enabled), filterType)

HookUpdatePatterns(s, patterns) ==
    UpdateStage(s, "updatePatterns",
                [hook[s].next EXCEPT !.patterns.ignoredPatterns = patterns], "patterns")

HookUpdateDirectories(s, directories) ==
    UpdateStage(s, "updateDirectories",
                [hook[s].next EXCEPT !.directories.ignoredDirectories = directories],
                "directories")

HookUpdateEventTypes(s, eventTypes) ==
    UpdateStage(s, "updateEventTypes",
                [hook[s].next EXCEPT !.eventTypes.allowedTypes = eventTypes], "eventTypes")

HookUpdateExtensions(s, extensions) ==
    UpdateStage(s, "updateExtensions",
                [hook[s].next EXCEPT !.extensions.watchedExtensions = extensions],
                "extensions")

HookUpdateExtensionMode(s, mode) ==
    UpdateStage(s, "updateExtensionMode",
                [hook[s].next EXCEPT !.extensions.mode = mode], "extensions")

HookUpdateDebounceTime(s, timeWindowMs) ==
    UpdateStage(s, "updateDebounceTime",
                [hook[s].next EXCEPT !.debounce.timeWindowMs = timeWindowMs], "debounce")

\* applyRepoTypePreset builds every object anew
HookApplyPreset(s, repoType) ==
    /\ SetFilterConfig(s, "applyPreset", applyRepoTypePreset(hook[s].next, repoType).ret,
                       FreshRef(hook[s].renderedConfigRef),
                       FreshRef(hook[s].renderedDebounceRef))
    /\ UNCHANGED <<now, fileEvents, arrivalNo, filteredEvents, passedAt, seenKeys, filterConfig, recentChanges, storage, timers, renderedConfig>>

\* setFilterConfig(resetFilterConfig()); recentChanges.clear()
HookResetFilters(s) ==
    /\ SetFilterConfig(s, "resetFilters", resetFilterConfig, "default", "default")
    /\ recentChanges' = [recentChanges EXCEPT ![MapRef(s)] = EmptyMap]
    /\ UNCHANGED <<now, fileEvents, arrivalNo, filteredEvents, passedAt, seenKeys, filterConfig, storage, timers, renderedConfig>>

\* the instance goes away: the interval effect's cleanup runs
Unmount(s) ==
    /\ hook[s].mounted
    /\ timers' = ClearInterval(timers, hook[s].intervalId)
    /\ hook' = [hook EXCEPT ![s] = [IdleHook EXCEPT !.updates = hook[s].updates]]
    /\ filterConfig' = [filterConfig EXCEPT ![s] = DEFAULT_FILTER_CONFIG]
    /\ call' = [op |-> "unmount", s |-> s]
    /\ UNCHANGED <<now, fileEvents, arrivalNo, filteredEvents, passedAt, seenKeys, recentChanges, storage, renderedConfig>>

\* thirty seconds are over for a scheduled interval: its callback runs
IntervalFires(timer) ==
    /\ timer \in timers
    /\ recentChanges' = [recentChanges EXCEPT
           ![MapRef(timer.s)] = IntervalSweep(@, timer.debounce, now)]
    /\ call' = [op |-> "sweep", s |-> timer.s]
    /\ UNCHANGED <<now, fileEvents, arrivalNo, filteredEvents, passedAt, seenKeys, filterConfig, storage, hook, timers, renderedConfig>>

\* a configuration another run of the application left in storage
StoredConfig == WithPreset(ModelConfig({"debounce"}, 1), "rust")

InitHooks ==
    /\ now = 0
    /\ filterConfig = [s \in Sessions |-> DEFAULT_FILTER_CONFIG]
    /\ recentChanges = [s \in Sessions |-> EmptyMap]
    /\ fileEvents = [s \in Sessions |-> <<>>]
    /\ arrivalNo = [s \in Sessions |-> <<>>]
    /\ filteredEvents = [s \in Sessions |-> <<>>]
    /\ passedAt = [e \in AllEvents |-> None]
    /\ seenKeys = {}
    /\ call = [op |-> "none", s |-> 0]
    /\ storage \in {NoItem, JsonStringify(StoredConfig)}
    /\ hook = [s \in Sessions |-> IdleHook]
    /\ timers = {}
    /\ renderedConfig = [s \in Sessions |-> ModelConfig({"directories"}, 1)]

HooksMount == \E s \in Sessions : Mount(s)
HooksRender == \E s \in Sessions : RenderEffects(s)
HooksUnmount == \E s \in Sessions : Unmount(s)
HooksSweep == \E timer \in timers : IntervalFires(timer)
HooksToggle == \E s \in Sessions, enabled \in BOOLEAN : HookToggleFilter(s, "debounce", enabled)
HooksPatterns == \E s \in Sessions : HookUpdatePatterns(s, << sDSStore >>)
HooksDirectories == \E s \in Sessions : HookUpdateDirectories(s, << sFoo >>)
HooksEventTypes == \E s \in Sessions : HookUpdateEventTypes(s, << modified >>)
HooksExtensions == \E s \in Sessions : HookUpdateExtensions(s, << sEnv >>)
HooksExtensionMode == \E s \in Sessions : HookUpdateExtensionMode(s, "exclude")
HooksDebounceTime == \E s \in Sessions : HookUpdateDebounceTime(s, 1)
HooksPreset == \E s \in Sessions : HookApplyPreset(s, "go")
HooksReset == \E s \in Sessions : HookResetFilters(s)

NextHooks ==
    \/ HooksMount \/ HooksRender \/ HooksUnmount \/ HooksSweep
    \/ HooksToggle \/ HooksPatterns \/ HooksDirectories \/ HooksEventTypes
    \/ HooksExtensions \/ HooksExtensionMode \/ HooksDebounceTime
    \/ HooksPreset \/ HooksReset

SpecHooks == InitHooks /\ [][NextHooks]_vars

MutationOps ==
    {"toggleFilter", "updatePatterns", "updateDirectories", "updateEventTypes",
     "updateExtensions", "updateExtensionMode", "updateDebounceTime", "applyPreset",
     "resetFilters"}

\* the stored item is the text of the session's rendered configuration
StoredIs(config) == storage.kind = "json" /\ DeepEqual(JsonParse(storage), config)

\* C18: the configuration is saved on every mutation: after toggleFilter, an
\* update function, applyPreset or resetFilters of a session, once its pending
\* effects have run, the stored value equals the session's current filterConfig.
C18_SavedOnEveryMutation ==
    \A s \in Sessions :
        (/\ call.s = s
         /\ call.op \in MutationOps \cup {"effects"}
         /\ hook[s].mounted
         /\ ~hook[s].needsRender)
            => StoredIs(filterConfig[s])

-----------------------------------------------------------------------------
(* The sweeps of the recentChanges map as functions of the map and the time *)

MaxSweepTime == 12    \* latest time of a sweep

SweepKeys == {createDebounceKey(eOk), createDebounceKey(eJs)}

EventOfKey(k) == IF k = createDebounceKey(eOk) THEN eOk ELSE eJs

\* the maps whose entries were stamped at times 0..2
SweepMaps ==
    UNION {[K -> 0..2] : K \in SUBSET SweepKeys}

StampedMap(stamps) ==
    [k \in DOMAIN stamps |-> [timestamp |-> stamps[k], event |-> EventOfKey(k)]]

SweepInputs ==
    {[op |-> "input", fn |-> "sweep", map |-> StampedMap(m), t |-> t] :
        m \in SweepMaps, t \in 2..MaxSweepTime}

\* cleanupRecentChanges(recentChanges, maxAgeMs) at time call.t
CleanupCheck ==
    /\ call.op = "input" /\ call.fn = "sweep"
    /\ \E maxAgeMs \in {0, 1, 2, 10} :
          call' = [op |-> "cleanupRecentChanges", before |-> call.map, t |-> call.t,
                   maxAgeMs |-> maxAgeMs, swept |-> TRUE,
                   after |-> cleanupRecentChanges(call.map, maxAgeMs, call.t)]
    /\ UNCHANGED <<now, filterConfig, recentChanges, fileEvents, arrivalNo,
                   filteredEvents, passedAt, seenKeys, storage, hook, timers, renderedConfig>>

\* the interval callback of useFileFilters at time call.t, for the debounce
\* config its closure holds
IntervalCheck ==
    /\ call.op = "input" /\ call.fn = "sweep"
    /\ \E enabled \in BOOLEAN, timeWindowMs \in {0, 1} :
          LET debounce == [enabled |-> enabled, timeWindowMs |-> timeWindowMs]
          IN  call' = [op |-> "intervalSweep", before |-> call.map, t |-> call.t,
                       maxAgeMs |-> timeWindowMs * 10, swept |-> enabled,
                       after |-> IntervalSweep(call.map, debounce, call.t)]
    /\ UNCHANGED <<now, filterConfig, recentChanges, fileEvents, arrivalNo,
                   filteredEvents, passedAt, seenKeys, storage, hook, timers, renderedConfig>>

InitSweep ==
    /\ now = 0
    /\ filterConfig = [s \in Sessions |-> ModelConfig({}, 0)]
    /\ recentChanges = [s \in Sessions |-> EmptyMap]
    /\ fileEvents = [s \in Sessions |-> <<>>]
    /\ arrivalNo = [s \in Sessions |-> <<>>]
    /\ filteredEvents = [s \in Sessions |-> <<>>]
    /\ passedAt = [e \in AllEvents |-> None]
    /\ seenKeys = {}
    /\ HooksIdle
    /\ call \in SweepInputs

NextSweep == CleanupCheck \/ IntervalCheck

SpecSweep == InitSweep /\ [][NextSweep]_vars

\* C19: after a sweep with horizon maxAgeMs run at time now, by
\* cleanupRecentChanges or by the loop of the useFileFilters interval, no entry
\* with now - timestamp > maxAgeMs remains in the map, and every entry with
\* now - timestamp <= maxAgeMs is still there with its timestamp and event.
C19_SweepRemovesExactlyTheOld ==
    (call.op \in {"cleanupRecentChanges", "intervalSweep"} /\ call.swept) =>
        /\ DOMAIN call.after \subseteq DOMAIN call.before
        /\ \A k \in DOMAIN call.before :
              IF call.t - call.before[k].timestamp > call.maxAgeMs
              THEN k \notin DOMAIN call.after
              ELSE k \in DOMAIN call.after /\ call.after[k] = call.before[k]

\* a sweep that deleted one entry and kept one that is exactly maxAgeMs old
C19_Witness ==
    /\ call.op = "intervalSweep"
    /\ call.swept
    /\ call.maxAgeMs = 10
    /\ Cardinality(DOMAIN call.before) = 2
    /\ \E k \in DOMAIN call.after : call.t - call.after[k].timestamp = call.maxAgeMs
    /\ \E k \in DOMAIN call.before : k \notin DOMAIN call.after

\* C20: the periodic sweep stops with its session: after a useFileFilters
\* session unmounts no sweep of its map runs, and at any time a session has at
\* most one sweep timer scheduled, also across changes of the debounce config.
C20_SweepStopsWithSession ==
    /\ \A s \in Sessions : Cardinality({t \in timers : t.s = s}) <= 1
    /\ \A s \in Sessions : ~hook[s].mounted => {t \in timers : t.s = s} = {}
    /\ call.op = "sweep" => hook[call.s].mounted

\* a session whose interval was set up again for a changed debounce object has
\* its one timer, holding the new config, while the other session is gone
C20_Witness ==
    /\ call.op = "unmount"
    /\ \E s \in Sessions :
          /\ hook[s].mounted
          /\ hook[s].renderedDebounceRef # "default"
          /\ {t.debounce : t \in {x \in timers : x.s = s}} = {filterConfig[s].debounce}
          /\ filterConfig[s].debounce # DEFAULT_FILTER_CONFIG.debounce
    /\ Cardinality(timers) = 1

-----------------------------------------------------------------------------
(* The pattern, event type and extension stages as functions of their arguments *)

MaxGlob == 3    \* longest pattern
MaxName == 3    \* longest file name

StringsOver(alphabet, n) == UNION {[1..k -> alphabet] : k \in 0..n}

\* all variables but call as they are before any hook is constructed
InitCall(inputs) ==
    /\ now = 0
    /\ filterConfig = [s \in Sessions |-> ModelConfig({}, 0)]
    /\ recentChanges = [s \in Sessions |-> EmptyMap]
    /\ fileEvents = [s \in Sessions |-> <<>>]
    /\ arrivalNo = [s \in Sessions |-> <<>>]
    /\ filteredEvents = [s \in Sessions |-> <<>>]
    /\ passedAt = [e \in AllEvents |-> None]
    /\ seenKeys = {}
    /\ HooksIdle
    /\ call \in inputs

NameChars == {"a", ".", "\n"}

GlobChars == {"*", "?", "a", "."}

FileNames == StringsOver(NameChars, MaxName)

GlobPatterns == StringsOver(GlobChars, MaxGlob)

\* a file name alone and the same name below a directory
PathsOf(names) ==
    names \cup {<<"/", "w", "/">> \o n : n \in {x \in names : Len(x) <= 2}}

GlobConfigs ==
    {[enabled |-> TRUE, ignoredPatterns |-> l] :
        l \in {<<>>} \cup {<<p>> : p \in GlobPatterns}
                     \cup {<<p, <<"a">> >> : p \in {x \in GlobPatterns : Len(x) <= 1}}}
    \cup {[enabled |-> FALSE, ignoredPatterns |-> l] : l \in {<<>>, << <<"*">> >>}}

GlobInputs ==
    {[op |-> "input", fn |-> "glob", path |-> p, config |-> c] :
        p \in PathsOf(FileNames), c \in GlobConfigs}

GlobCheck ==
    /\ call.op = "input" /\ call.fn = "glob"
    /\ call' = [op |-> "globCheck", path |-> call.path, config |-> call.config,
                ret |-> matchesIgnoredPattern(call.path, call.config)]
    /\ UNCHANGED <<now, filterConfig, recentChanges, fileEvents, arrivalNo,
                   filteredEvents, passedAt, seenKeys, storage, hook, timers, renderedConfig>>

sChmod == <<"c","h","m","o","d">>
sConstructor == <<"c","o","n","s","t","r","u","c","t","o","r">>

EventKinds ==
    DOMAIN typeMap
    \cup {created, modified, removed, renamed, sChmod, sConstructor, <<>>,
          <<"C","r","e","a","t","e">>, <<"A","D","D">>, <<"C","h","m","o","d">>,
          <<"M","o","d","i","f","i","e","d">>, <<"_","_","p","r","o","t","o","_","_">>}

EventTypeConfigs ==
    {[enabled |-> en, allowedTypes |-> l] :
        en \in BOOLEAN,
        l \in ListsOver({created, modified, renamed, sChmod,
                         <<"c","r","e","a","t","e">>, sConstructor})}

EventTypeInputs ==
    {[op |-> "input", fn |-> "eventType", kind |-> k, config |-> c] :
        k \in EventKinds, c \in EventTypeConfigs}

EventTypeCheck ==
    /\ call.op = "input" /\ call.fn = "eventType"
    /\ call' = [op |-> "eventTypeCheck", kind |-> call.kind, config |-> call.config,
                ret |-> isAllowedEventType(call.kind, call.config)]
    /\ UNCHANGED <<now, filterConfig, recentChanges, fileEvents, arrivalNo,
                   filteredEvents, passedAt, seenKeys, storage, hook, timers, renderedConfig>>

ExtensionNames == StringsOver({"a", "T", "."}, MaxName)

WatchedLists == ListsOver({<<".","t">>, <<".","T">>, <<".","a">>})

ExtensionStageConfigs ==
    {[enabled |-> en, watchedExtensions |-> l, mode |-> m] :
        en \in BOOLEAN, l \in WatchedLists, m \in {"include", "exclude"}}

ExtensionStageInputs ==
    {[op |-> "input", fn |-> "extension", path |-> p, config |-> c] :
        p \in PathsOf(ExtensionNames), c \in ExtensionStageConfigs}

ExtensionStageCheck ==
    /\ call.op = "input" /\ call.fn = "extension"
    /\ call' = [op |-> "extensionCheck", path |-> call.path, config |-> call.config,
                ret |-> matchesExtensionFilter(call.path, call.config)]
    /\ UNCHANGED <<now, filterConfig, recentChanges, fileEvents, arrivalNo,
                   filteredEvents, passedAt, seenKeys, storage, hook, timers, renderedConfig>>

InitStages == InitCall(GlobInputs \cup EventTypeInputs \cup ExtensionStageInputs)

NextStages == GlobCheck \/ EventTypeCheck \/ ExtensionStageCheck

SpecStages == InitStages /\ [][NextStages]_vars

RECURSIVE GlobReach(_, _, _)
\* the lengths of the prefixes of name that the first i characters of the glob
\* match: "*" any run of characters, "?" one character, any other character itself
GlobReach(pattern, i, name) ==
    IF i = 0 THEN {0}
    ELSE LET prev == GlobReach(pattern, i - 1, name)
         IN  IF pattern[i] = "*"
             THEN {k \in 0..Len(name) : \E j \in prev : j <= k}
             ELSE {j + 1 : j \in {x \in prev :
                      /\ x < Len(name)
                      /\ pattern[i] = "?" \/ name[x + 1] = pattern[i]}}

GlobMatches(pattern, name) == Len(name) \in GlobReach(pattern, Len(pattern), name)

\* C21: matchesIgnoredPattern is false when the stage is disabled or has no
\* patterns; otherwise it is true iff some pattern glob-matches the whole base
\* name, "*" standing for any run of characters, "?" for exactly one character
\* and every other character for itself.
C21_PatternContract ==
    call.op = "globCheck" =>
        call.ret = (/\ call.config.enabled
                    /\ \E i \in 1..Len(call.config.ignoredPatterns) :
                          GlobMatches(call.config.ignoredPatterns[i], BaseName(call.path)))

\* the kinds the statement lists for each standard name
StatedKinds ==
    [created |-> { <<"c","r","e","a","t","e">>, <<"a","d","d">>, <<"a","d","d","e","d">>,
                   <<"n","e","w">> },
     modified |-> { <<"m","o","d","i","f","y">>, <<"c","h","a","n","g","e">>,
                    <<"c","h","a","n","g","e","d">>, <<"u","p","d","a","t","e">>,
                    <<"u","p","d","a","t","e","d">> },
     removed |-> { <<"d","e","l","e","t","e">>, <<"r","e","m","o","v","e">>,
                   <<"d","e","l","e","t","e","d">>, <<"u","n","l","i","n","k">> },
     renamed |-> { <<"r","e","n","a","m","e">>, <<"m","o","v","e">>, <<"m","o","v","e","d">> },
     accessed |-> { <<"a","c","c","e","s","s">>, <<"a","c","c","e","s","s","e","d">> }]

StatedNormal(kind) ==
    LET lower == ToLowerCase(kind)
    IN  CASE lower \in StatedKinds.created -> created
          [] lower \in StatedKinds.modified -> modified
          [] lower \in StatedKinds.removed -> removed
          [] lower \in StatedKinds.renamed -> renamed
          [] lower \in StatedKinds.accessed -> accessed
          [] OTHER -> lower

\* C22: isAllowedEventType is true when the stage is disabled or allowedTypes
\* is empty; otherwise it is true iff the normalized kind is in allowedTypes,
\* the normalized kind being the standard name of the lower-cased kind where the
\* table has one and the lower-cased kind itself for every other kind.
C22_EventTypeContract ==
    call.op = "eventTypeCheck" =>
        call.ret = (\/ ~call.config.enabled
                    \/ Len(call.config.allowedTypes) = 0
                    \/ Includes(call.config.allowedTypes, StatedNormal(call.kind)))

\* the lower-cased text from the last "." of the base name; empty without a dot
\* and when the only dot is the first character
StatedExtension(path) ==
    LET name == BaseName(path)
        dots == {i \in 1..Len(name) : name[i] = "."}
    IN  IF dots = {} \/ dots = {1} THEN <<>>
        ELSE LET last == CHOOSE i \in dots : \A j \in dots : j <= i
             IN  ToLowerCase([k \in 1..(Len(name) - last + 1) |-> name[last + k - 1]])

\* C23: matchesExtensionFilter is true when the stage is disabled or
\* watchedExtensions is empty; otherwise a file without extension passes iff
\* the mode is exclude, and a file with an extension passes iff the extension is
\* in watchedExtensions (include mode) or is not in it (exclude mode).
C23_ExtensionContract ==
    call.op = "extensionCheck" =>
        LET c == call.config
            extension == StatedExtension(call.path)
            listed == \E i \in 1..Len(c.watchedExtensions) : c.watchedExtensions[i] = extension
        IN  call.ret =
                IF ~c.enabled \/ Len(c.watchedExtensions) = 0 THEN TRUE
                ELSE IF extension = <<>> THEN c.mode = "exclude"
                ELSE IF c.mode = "include" THEN listed
                ELSE ~listed

\* a hidden file rejected in include mode although its name is listed, beside
\* an upper-case extension accepted through its lower-case spelling
C23_Witness ==
    /\ call.op = "extensionCheck"
    /\ call.config.enabled
    /\ call.config.mode = "include"
    /\ \/ /\ call.path = <<".", "a">>
          /\ call.config.watchedExtensions = << <<".", "a">> >>
          /\ ~call.ret
       \/ /\ call.path = <<"a", ".", "T">>
          /\ call.config.watchedExtensions = << <<".", "t">> >>
          /\ call.ret

-----------------------------------------------------------------------------
(* toggleFilter as a function of its arguments *)

ToggleInputs ==
    {[op |-> "input", fn |-> "toggleFilter", config |-> c, filterType |-> ft, enabled |-> en] :
        c \in StoreConfigs, ft \in FilterTypes, en \in BOOLEAN}

\* toggleFilter(config, filterType, enabled): the writes go to the shallow copy
\* newConfig and to a new stage object, the argument object keeps its value
ToggleCheck ==
    /\ call.op = "input" /\ call.fn = "toggleFilter"
    /\ call' = [op |-> "toggleCheck", config |-> call.config, filterType |-> call.filterType,
                enabled |-> call.enabled,
                ret |-> toggleFilter(call.config, call.filterType, call.enabled),
                configAfter |-> call.config]
    /\ UNCHANGED <<now, filterConfig, recentChanges, fileEvents, arrivalNo,
                   filteredEvents, passedAt, seenKeys, storage, hook, timers, renderedConfig>>

InitToggle == InitCall(ToggleInputs)

NextToggle == ToggleCheck

SpecToggle == InitToggle /\ [][NextToggle]_vars

\* C24: toggleFilter(config, stage, enabled) returns a config that differs from
\* config only in the enabled flag of stage, which has the given value: the
\* data of the stage, the four other stages and activePreset are as in config,
\* config itself is not modified, and toggling to the value already set
\* returns a config equal to config.
C24_ToggleChangesOneFlag ==
    call.op = "toggleCheck" =>
        LET c == call.config
            r == call.ret
            st == call.filterType
        IN  /\ DOMAIN r = DOMAIN c
            /\ \A k \in DOMAIN c \ {st} : r[k] = c[k]
            /\ DOMAIN r[st] = DOMAIN c[st]
            /\ r[st].enabled = call.enabled
            /\ \A f \in DOMAIN c[st] \ {"enabled"} : r[st][f] = c[st][f]
            /\ call.configAfter = c
            /\ (c[st].enabled = call.enabled) => r = c

\* a stage of a config with a preset is switched on while another stage is on
C24_Witness ==
    /\ call.op = "toggleCheck"
    /\ call.filterType = "extensions"
    /\ call.enabled
    /\ ~call.config.extensions.enabled
    /\ call.config.debounce.enabled
    /\ "activePreset" \in DOMAIN call.config
    /\ call.config.activePreset = "rust"
    /\ call.ret.extensions.enabled

-----------------------------------------------------------------------------
(* The stages of a watch session stay as the user set them *)

\* C25: in a session built with useFileWatcher a stage (patterns, eventTypes,
\* extensions, debounce) that is enabled stays enabled through re-renders: it
\* is switched off only by a step in which the user toggles it off (reset and
\* preset are not among the steps of a watch session here), never by a render.
C25_EnabledUntilUserTurnsOff ==
    [][\A st \in {"patterns", "eventTypes", "extensions", "debounce"} :
          (filterConfig[1][st].enabled /\ ~filterConfig'[1][st].enabled)
              => /\ call'.op # "render"
                 /\ filterConfig'[1] = toggleFilter(filterConfig[1], st, FALSE)]_vars

-----------------------------------------------------------------------------
(* Two runs on the same events at the same times: the map of session 1 is swept,
   the map of session 2 never is *)

RunsInit ==
    InitWith({ModelConfig(en, w) : en \in {{}, {"debounce"}}, w \in {0, 1}})

RunsTick == TickTo(MaxSweepTime)

\* shouldDebounceEvent(event, recentChanges, config) in both runs
RunsEvent ==
    \E e \in {eOk, eAcc} :
        LET r1 == shouldDebounceEvent(e, recentChanges[MapRef(1)], filterConfig[1].debounce, now)
            r2 == shouldDebounceEvent(e, recentChanges[MapRef(2)], filterConfig[2].debounce, now)
        IN  /\ recentChanges' = [recentChanges EXCEPT ![MapRef(1)] = r1.map,
                                                      ![MapRef(2)] = r2.map]
            /\ call' = [NoCall EXCEPT !.op = "pair", !.e = e, !.t = now,
                                      !.before = recentChanges,
                                      !.log = <<r1.ret, r2.ret>>]
            /\ UNCHANGED <<now, filterConfig, fileEvents, arrivalNo, filteredEvents,
                           passedAt, seenKeys, storage, hook, timers, renderedConfig>>

\* the interval callback of session 1 runs
RunsIntervalSweep ==
    /\ recentChanges' = [recentChanges EXCEPT
           ![MapRef(1)] = IntervalSweep(@, filterConfig[1].debounce, now)]
    /\ call' = [NoCall EXCEPT !.op = "sweep", !.s = 1, !.t = now, !.before = recentChanges]
    /\ UNCHANGED <<now, filterConfig, fileEvents, arrivalNo, filteredEvents,
                   passedAt, seenKeys, storage, hook, timers, renderedConfig>>

\* cleanupRecentChanges(recentChanges, 10 * timeWindowMs) on the map of session 1
RunsCleanup ==
    /\ recentChanges' = [recentChanges EXCEPT
           ![MapRef(1)] = cleanupRecentChanges(@, 10 * filterConfig[1].debounce.timeWindowMs, now)]
    /\ call' = [NoCall EXCEPT !.op = "cleanup", !.s = 1, !.t = now, !.before = recentChanges]
    /\ UNCHANGED <<now, filterConfig, fileEvents, arrivalNo, filteredEvents,
                   passedAt, seenKeys, storage, hook, timers, renderedConfig>>

NextRuns == RunsTick \/ RunsEvent \/ RunsIntervalSweep \/ RunsCleanup

SpecRuns == RunsInit /\ [][NextRuns]_vars

\* C27: the periodic sweep never changes a debounce decision while the window
\* is unchanged: with sweeps of horizon 10 x timeWindowMs interleaved at any
\* points, each call of shouldDebounceEvent decides as the same call does in
\* the run without sweeps.
C27_SweepKeepsDecisions ==
    call.op = "pair" => call.log[1] = call.log[2]

\* the swept run has lost the entry of the event, the other run still holds
\* it, and both let the event pass
C27_Witness ==
    /\ call.op = "pair"
    /\ filterConfig[1].debounce.enabled
    /\ filterConfig[1].debounce.timeWindowMs > 0
    /\ createDebounceKey(call.e) \in DOMAIN call.before[MapRef(2)]
    /\ createDebounceKey(call.e) \notin DOMAIN call.before[MapRef(1)]
    /\ call.log = <<FALSE, FALSE>>

-----------------------------------------------------------------------------
(* The two detectors on the same listing *)

\* the entries of a listing that are files (names with a dot) and those that
\* are directories
ListingFiles(listing) == SelectSeq(listing, LAMBDA p : Includes(BaseName(p), "."))

ListingDirectories(listing) == SelectSeq(listing, LAMBDA p : ~Includes(BaseName(p), "."))

\* C28: when the directory listing succeeds, detectRepoTypeAsync resolves to
\* the type detectRepoType returns for the files and directories of the listing.
C28_AsyncAgreesWithScored ==
    (call.op = "detectRepoTypeAsync" /\ call.tauri.kind = "files") =>
        call.promise.value = detectRepoType(ListingFiles(call.tauri.files),
                                            ListingDirectories(call.tauri.files))

-----------------------------------------------------------------------------
(* Mounting and the stored configuration *)

\* C29: mounting a useFileFilters session does not alter the persisted
\* configuration: the step that mounts a session (its first render with the
\* load effect and the save effect) leaves the value stored under the
\* configuration key as it was before the mount, also while another session
\* is mounting.
C29_MountKeepsStored ==
    [][call'.op = "mount" => storage' = storage]_vars

-----------------------------------------------------------------------------
(* autoDetectAndApplyPreset of a mounted useFileFilters instance *)

sGoMod == <<"/","r","/","g","o",".","m","o","d">>

\* the directories passed and what the Tauri API answers
DetectPaths == {<<>>, <<"/","h","o","m","e","/","a","p","p">>}

DetectAnswers ==
    {[kind |-> "importFails"], [kind |-> "files", files |-> <<>>],
     [kind |-> "files", files |-> <<sGoMod>>]}

\* the value of a promise that resolved to null
Null == "null"

\* mutant: the preset of every detected type is applied, generic included
IsAppliedTypeAny(detectedType) == TRUE

\* detectedType !== 'generic'
IsAppliedType(detectedType) == detectedType # "generic"

\* autoDetectAndApplyPreset(directoryPath) up to its await: an empty path
\* returns null at once, otherwise the detection is under way (one detection
\* at a time per instance)
AutoDetectCall(s, directoryPath, tauri) ==
    /\ hook[s].mounted
    /\ ~hook[s].detect.pending
    /\ IF directoryPath = <<>>
       THEN /\ call' = [op |-> "autoDetect", s |-> s, directoryPath |-> directoryPath,
                        detectedType |-> "none", prev |-> hook[s].next, ret |-> Null]
            /\ hook' = hook
       ELSE /\ call' = [op |-> "detecting", s |-> s]
            /\ hook' = [hook EXCEPT ![s].detect =
                   [pending |-> TRUE, directoryPath |-> directoryPath, tauri |-> tauri]]
    /\ UNCHANGED <<now, filterConfig, recentChanges, fileEvents, arrivalNo, filteredEvents,
                   passedAt, seenKeys, storage, timers, renderedConfig>>

\* the rest of autoDetectAndApplyPreset, after detectRepoTypeAsync settled
AutoDetectResume(s) ==
    LET d == hook[s].detect
        promise == detectRepoTypeAsync(d.directoryPath, d.tauri)
        detectedType == promise.value
        settled == [hook EXCEPT ![s].detect = [pending |-> FALSE]]
    IN  /\ hook[s].mounted
        /\ d.pending
        /\ IF promise.state = "fulfilled" /\ IsAppliedType(detectedType)
           THEN /\ UpdatesDone < MaxUpdates
                /\ hook' = [QueuedState(s, applyRepoTypePreset(hook[s].next, detectedType).ret,
                                        FreshRef(hook[s].renderedConfigRef),
                                        FreshRef(hook[s].renderedDebounceRef))
                               EXCEPT ![s].detect = [pending |-> FALSE]]
                /\ call' = [op |-> "autoDetect", s |-> s, directoryPath |-> d.directoryPath,
                            detectedType |-> detectedType, prev |-> hook[s].next,
                            ret |-> detectedType]
           ELSE /\ hook' = settled
                /\ call' = [op |-> "autoDetect", s |-> s, directoryPath |-> d.directoryPath,
                            detectedType |-> detectedType, prev |-> hook[s].next, ret |-> Null]
        /\ UNCHANGED <<now, filterConfig, recentChanges, fileEvents, arrivalNo, filteredEvents,
                       passedAt, seenKeys, storage, timers, renderedConfig>>

AutoMount == Mount(1)
AutoRender == RenderEffects(1)
AutoUnmount == Unmount(1)
AutoCall == \E p \in DetectPaths, a \in DetectAnswers : AutoDetectCall(1, p, a)
AutoResume == AutoDetectResume(1)
AutoToggle == \E ft \in {"patterns", "debounce"} : HookToggleFilter(1, ft, TRUE)
AutoPreset == HookApplyPreset(1, "rust")

NextAuto ==
    AutoMount \/ AutoRender \/ AutoUnmount \/ AutoCall \/ AutoResume \/ AutoToggle \/ AutoPreset

SpecAuto == InitHooks /\ [][NextAuto]_vars

\* C30: autoDetectAndApplyPreset changes the configuration only when the
\* detection yields a type other than generic: for an empty path or a generic
\* result the session's configuration (five stages and activePreset) is the
\* one before and the call returns null; otherwise the configuration is
\* applyRepoTypePreset(previous configuration, detected type) and the call
\* returns the detected type.
C30_AutoDetectAppliesPreset ==
    call.op = "autoDetect" =>
        LET s == call.s
        IN  IF call.directoryPath = <<>> \/ call.detectedType = "generic"
            THEN /\ hook[s].next = call.prev
                 /\ call.ret = Null
            ELSE /\ \A st \in {"directories", "extensions"} :
                        hook[s].next[st] = REPO_TYPE_PRESETS[call.detectedType][st]
                 /\ \A st \in FilterTypes \ {"directories", "extensions"} :
                        hook[s].next[st] = call.prev[st]
                 /\ hook[s].next.activePreset = call.detectedType
                 /\ hook[s].next = applyRepoTypePreset(call.prev, call.detectedType).ret
                 /\ call.ret = call.detectedType

\* the detection found a go repository in a session whose patterns stage the
\* user had switched on: the preset went onto that configuration
C30_Witness ==
    /\ call.op = "autoDetect"
    /\ call.ret = "go"
    /\ call.prev.patterns.enabled
    /\ call.prev # DEFAULT_FILTER_CONFIG
    /\ hook[call.s].next.patterns.enabled
    /\ hook[call.s].next.activePreset = "go"

====
